---- MODULE Spec2Model ----
(***************************************************************************)
(* Model of the performance benchmark utilities of the Heroic Games        *)
(* Launcher test suite:                                                    *)
(*   - performance-metrics.ts  (calculateStats, benchmarkFunction)         *)
(*   - performance-storage.ts  (the result store and its comparator)       *)
(*   - compare-performance.ts  (the comparison command line tool)          *)
(*   - the test result tracker (TestResultTracker)                         *)
(*   - ipc-performance.test.ts (the afterAll hook of the IPC suite)        *)
(*                                                                         *)
(* Numbers are JavaScript numbers: binary floating point, rounded to       *)
(* nearest (ties to even) after every arithmetic operation.  The model     *)
(* keeps the rounding and narrows the significand from 53 bits to          *)
(* FloatBits bits; the exponent range is left unbounded (timings are far   *)
(* from overflow and underflow).  A number is a record [num, den]:         *)
(*   den > 0   the finite value num/den, in lowest terms                   *)
(*   den = 0   NaN (num = 0), +Infinity (num = 1), -Infinity (num = -1)    *)
(*   den = -1  the JavaScript value undefined standing in a numeric slot   *)
(*   den = -2  the JSON value null standing in a numeric slot              *)
(***************************************************************************)
EXTENDS Integers, Sequences, FiniteSets, TLC

\* Width of the significand of the modelled floating-point format.
FloatBits == 4

\* Longest sequence of durations of which every one is handed to
\* calculateStats.
MaxLen == 3

\* Most results in the current report handed to the comparator.
MaxResults == 2

\* Last reading of the millisecond clock.
MaxTime == 1

\* Most files in the results directory besides the baseline.
MaxFiles == 2

VARIABLES
  durations,      \* SpecStats: the argument of calculateStats
  statsOut,       \* SpecStats: how the call of calculateStats ended
  args,           \* the arguments of the calls made: per specification
  now,            \* the millisecond clock behind new Date()
  dirExists,      \* whether the directory performance-results exists
  files,          \* the files in it: path -> [data, mtime]
  last,           \* the last operation called, with its arguments and its outcome
  savedBaseline,  \* history: the argument of the last saveAsBaseline call, if any
  bench,          \* SpecBench: the benchmarkFunction call under way
  tracker         \* SpecTracker: the TestResultTracker of a suite

vars ==
  <<durations, statsOut, args, now, dirExists, files, last, savedBaseline, bench, tracker>>

-----------------------------------------------------------------------------
(* JavaScript numbers *)

NaN == [num |-> 0, den |-> 0]
PosInf == [num |-> 1, den |-> 0]
NegInf == [num |-> -1, den |-> 0]
Undefined == [num |-> 0, den |-> -1]
Null == [num |-> 0, den |-> -2]

IsFinite(x) == x.den > 0

Abs(n) == IF n < 0 THEN 0 - n ELSE n
Sign(n) == IF n < 0 THEN -1 ELSE IF n > 0 THEN 1 ELSE 0

RECURSIVE Pow2(_)
Pow2(k) == IF k <= 0 THEN 1 ELSE 2 * Pow2(k - 1)

RECURSIVE GCD(_, _)
GCD(a, b) == IF b = 0 THEN a ELSE GCD(b, a % b)

\* The rational n/d (d > 0) in lowest terms.
Rat(n, d) == LET g == GCD(Abs(n), d) IN [num |-> n \div g, den |-> d \div g]

Num(n) == [num |-> n, den |-> 1]

\* Scale a/d (a, d > 0) by powers of two into [2^(FloatBits-1), 2^FloatBits):
\* the result <<a2, d2, e>> has a/d = (a2/d2) * 2^e for e >= 0 and
\* a/d = (a2/d2) / 2^(-e) for e < 0.
RECURSIVE Scale(_, _, _)
Scale(a, d, e) ==
  IF a < Pow2(FloatBits - 1) * d THEN Scale(2 * a, d, e - 1)
  ELSE IF a >= Pow2(FloatBits) * d THEN Scale(a, 2 * d, e + 1)
  ELSE <<a, d, e>>

\* Round to nearest integer, ties to even, of a/d (a >= 0, d > 0).
RoundHalfEven(a, d) ==
  LET m == a \div d
      r == a - m * d
  IN IF 2 * r > d THEN m + 1
     ELSE IF 2 * r < d THEN m
     ELSE m + (m % 2)

\* The floating-point number nearest to the exact value n/d (d > 0).
FRound(n, d) ==
  IF n = 0 THEN Num(0)
  ELSE LET s == Scale(Abs(n), d, 0)
           m == RoundHalfEven(s[1], s[2])
       IN IF s[3] >= 0 THEN Rat(Sign(n) * m * Pow2(s[3]), 1)
          ELSE Rat(Sign(n) * m, Pow2(0 - s[3]))

\* A numeric literal of the source text, or a value read from a clock.
Lit(n, d) == FRound(n, d)

\* ToNumber: an operand of an arithmetic or relational operator.  undefined
\* becomes NaN and null becomes 0.
ToNumber(x) == IF x = Undefined THEN NaN ELSE IF x = Null THEN Num(0) ELSE x

\* The operations on numbers proper (NaN, the infinities and finite values).
NegN(x) == [num |-> 0 - x.num, den |-> x.den]

AddN(x, y) ==
  IF x = NaN \/ y = NaN THEN NaN
  ELSE IF IsFinite(x) /\ IsFinite(y)
    THEN FRound(x.num * y.den + y.num * x.den, x.den * y.den)
  ELSE IF IsFinite(x) THEN y
  ELSE IF IsFinite(y) THEN x
  ELSE IF x = y THEN x ELSE NaN

MulN(x, y) ==
  IF x = NaN \/ y = NaN THEN NaN
  ELSE IF IsFinite(x) /\ IsFinite(y) THEN FRound(x.num * y.num, x.den * y.den)
  ELSE IF x.num = 0 \/ y.num = 0 THEN NaN
  ELSE IF Sign(x.num) = Sign(y.num) THEN PosInf ELSE NegInf

DivN(x, y) ==
  IF x = NaN \/ y = NaN THEN NaN
  ELSE IF IsFinite(x) /\ IsFinite(y) THEN
    IF y.num = 0
      THEN (IF x.num = 0 THEN NaN ELSE IF x.num > 0 THEN PosInf ELSE NegInf)
      ELSE FRound(Sign(y.num) * x.num * y.den, Abs(y.num) * x.den)
  ELSE IF IsFinite(x) THEN Num(0)
  ELSE IF IsFinite(y)
    THEN (IF (x.num > 0) = (y.num >= 0) THEN PosInf ELSE NegInf)
  ELSE NaN

LtN(x, y) ==
  IF x = NaN \/ y = NaN THEN FALSE
  ELSE IF IsFinite(x) /\ IsFinite(y) THEN x.num * y.den < y.num * x.den
  ELSE IF IsFinite(x) THEN y = PosInf
  ELSE IF IsFinite(y) THEN x = NegInf
  ELSE x = NegInf /\ y = PosInf

\* -x, x + y, x - y, x * y, x / y, Math.pow(x, 2)
FNeg(x) == NegN(ToNumber(x))
FAdd(x, y) == AddN(ToNumber(x), ToNumber(y))
FSub(x, y) == AddN(ToNumber(x), NegN(ToNumber(y)))
FMul(x, y) == MulN(ToNumber(x), ToNumber(y))
FDiv(x, y) == DivN(ToNumber(x), ToNumber(y))
FPow2(x) == FMul(x, x)

\* x < y, x > y, x <= y: false as soon as an operand is NaN.
FLt(x, y) == LtN(ToNumber(x), ToNumber(y))
FGt(x, y) == LtN(ToNumber(y), ToNumber(x))
FLe(x, y) ==
  LtN(ToNumber(x), ToNumber(y)) \/ (ToNumber(x) = ToNumber(y) /\ ToNumber(x) # NaN)

\* floor(sqrt(q)) for a natural q.
RECURSIVE ISqrtFrom(_, _)
ISqrtFrom(q, m) == IF (m + 1) * (m + 1) > q THEN m ELSE ISqrtFrom(q, m + 1)

\* Math.sqrt(x): the floating-point number nearest to the square root.  For
\* x = a/d > 0 scale by powers of four until the root lies in
\* [2^(FloatBits-1), 2^FloatBits), take the integer root and round on the
\* comparison of the scaled value with (m + 1/2)^2.
RECURSIVE SqrtScale(_, _, _)
SqrtScale(a, d, e) ==
  IF a < Pow2(2 * (FloatBits - 1)) * d THEN SqrtScale(4 * a, d, e - 1)
  ELSE IF a >= Pow2(2 * FloatBits) * d THEN SqrtScale(a, 4 * d, e + 1)
  ELSE <<a, d, e>>

SqrtN(x) ==
  IF x = NaN \/ x = NegInf THEN NaN
  ELSE IF x = PosInf THEN PosInf
  ELSE IF x.num < 0 THEN NaN
  ELSE IF x.num = 0 THEN Num(0)
  ELSE LET s == SqrtScale(x.num, x.den, 0)
           m == ISqrtFrom(s[1] \div s[2], Pow2(FloatBits - 1))
           \* (m + 1/2)^2 * s[2] * 4  against  s[1] * 4
           half == (4 * m * m + 4 * m + 1) * s[2]
           up == IF 4 * s[1] > half THEN m + 1
                 ELSE IF 4 * s[1] < half THEN m
                 ELSE m + (m % 2)
       IN IF s[3] >= 0 THEN Rat(up * Pow2(s[3]), 1) ELSE Rat(up, Pow2(0 - s[3]))

FSqrt(x) == SqrtN(ToNumber(x))

-----------------------------------------------------------------------------
(* performance-metrics.ts *)

\* Array.prototype.reduce with an initial value: defined on the empty array.
\* The callback is applied to the elements from left to right: the left half
\* is folded to a value first, and the right half is folded from that value.
RECURSIVE Reduce(_, _, _)
Reduce(f(_, _), arr, acc) ==
  IF arr = <<>> THEN acc
  ELSE IF Len(arr) = 1 THEN f(acc, arr[1])
  ELSE LET half == Len(arr) \div 2
           left == Reduce(f, SubSeq(arr, 1, half), acc)
       IN IF left = left
          THEN Reduce(f, SubSeq(arr, half + 1, Len(arr)), left)
          ELSE left

\* arr[i] with a zero-based index: undefined outside the array.
At(arr, i) == IF i >= 0 /\ i < Len(arr) THEN arr[i + 1] ELSE Undefined

\* Insert v into an ascending array before the first element the comparator
\* (a, b) => a - b puts after it.
InsertAsc(arr, v) ==
  LET notAfter == {i \in DOMAIN arr : ~FLt(FSub(v, arr[i]), Num(0))}
      k == Cardinality(notAfter)
  IN SubSeq(arr, 1, k) \o <<v>> \o SubSeq(arr, k + 1, Len(arr))

\* [...durations].sort((a, b) => a - b): a stable sort, every element inserted
\* in turn into the ascending array of those before it.
SortAsc(arr) == Reduce(InsertAsc, arr, <<>>)

\* A copy left in the order of the original.
UnsortedCopy(arr) == arr

\* The copy calculateStats works on.
SortedCopy(arr) == SortAsc(arr)

\* Math.floor(n * 0.95) and Math.floor(n * 0.99): the double nearest to 0.95
\* (0.99) lies below it by less than half an ulp, so for every array length the
\* rounded product has the floor of the exact n*95/100 (n*99/100).
PercentileIndexCeil(n, pct) == (n * pct + 99) \div 100

PercentileIndex(n, pct) == (n * pct) \div 100

calculateStats(durs) ==
  LET sorted == SortedCopy(durs)
      n == Len(sorted)
      mean == FDiv(Reduce(LAMBDA sum, val: FAdd(sum, val), sorted, Num(0)), Num(n))
      variance ==
        FDiv(Reduce(LAMBDA sum, val: FAdd(sum, FPow2(FSub(val, mean))), sorted, Num(0)),
             Num(n))
  IN [mean |-> mean,
     median |-> At(sorted, n \div 2),
     min |-> At(sorted, 0),
     max |-> At(sorted, n - 1),
     p95 |-> At(sorted, PercentileIndex(n, 95)),
     p99 |-> At(sorted, PercentileIndex(n, 99)),
     stdDev |-> FSqrt(variance)]

-----------------------------------------------------------------------------
(* Objects and JSON *)

\* obj.key: undefined when the object has no such property.
Get(obj, key) == IF key \in DOMAIN obj THEN obj[key] ELSE Undefined

\* JSON.stringify of a number: NaN and the infinities are written as null; a
\* finite number is written in the shortest form that reads back as itself.
JsonNumber(x) == IF IsFinite(x) THEN x ELSE Null

\* JSON.stringify of an object leaves out the properties whose value is
\* undefined.  opt names the properties of obj that may hold undefined.
DropUndefined(obj, opt) ==
  [k \in DOMAIN obj \ {o \in opt \cap DOMAIN obj : obj[o] = Undefined} |-> obj[k]]

StatKeys == {"mean", "median", "min", "max", "p95", "p99", "stdDev"}

JsonStats(st) ==
  LET kept == DropUndefined(st, StatKeys)
  IN [k \in DOMAIN kept |-> JsonNumber(kept[k])]

JsonMetadata(md) ==
  LET kept == DropUndefined(md, {"memoryDelta"})
  IN [k \in DOMAIN kept |-> JsonNumber(kept[k])]

JsonResult(tr) ==
  LET kept == DropUndefined(tr, {"metadata"})
  IN [k \in DOMAIN kept |->
        IF k = "stats" THEN JsonStats(kept[k])
        ELSE IF k = "metadata" THEN JsonMetadata(kept[k])
        ELSE kept[k]]

\* JSON.stringify(report, null, 2): the text of a file, held as the JSON value
\* the text denotes.
Stringify(report) ==
  [json |-> TRUE,
   value |-> [testSuite |-> report.testSuite,
              timestamp |-> report.timestamp,
              environment |-> report.environment,
              results |-> [i \in 1..Len(report.results) |-> JsonResult(report.results[i])]]]

\* Text that is not JSON (the CSV export).
PlainText(lines) == [json |-> FALSE, lines |-> lines]

\* JSON.parse(text) throws a SyntaxError on text that is not JSON.
ParseThrows(text) == ~text.json
Parse(text) == text.value

\* How a call ended: by returning a value, or by throwing.
Returned(v) == [pending |-> FALSE, threw |-> FALSE, value |-> v]
Threw(msg) == [pending |-> FALSE, threw |-> TRUE, error |-> msg]

\* The call has not been made yet.
Pending == [pending |-> TRUE]

\* No benchmarkFunction call is under way.
NoBench == [pc |-> "none"]

\* No tracker in use.
NoTracker == [results |-> <<>>]

\* The value null returned in place of a report.
NoReport == [absent |-> TRUE]

-----------------------------------------------------------------------------
(* The file system under process.cwd() *)

RESULTS_DIR == "performance-results"
BASELINE_NAME == "baseline.json"

\* join(RESULTS_DIR, name)
Join(dir, name) == dir \o "/" \o name
BASELINE_FILE == Join(RESULTS_DIR, BASELINE_NAME)

\* String.prototype.endsWith
EndsWith(str, suffix) ==
  /\ Len(str) >= Len(suffix)
  /\ SubSeq(str, Len(str) - Len(suffix) + 1, Len(str)) = suffix

\* existsSync(path) and readFileSync(path) on the map fs from path to file.
ExistsSync(fs, path) == path \in DOMAIN fs
ReadFileSync(fs, path) == fs[path].data

\* writeFileSync(path, data) at clock time t: creates or replaces the file.
WriteFileSync(fs, path, data, t) ==
  [p \in DOMAIN fs \cup {path} |->
     IF p = path THEN [data |-> data, mtime |-> t] ELSE fs[p]]

\* unlinkSync(path)
UnlinkSync(fs, path) == [p \in DOMAIN fs \ {path} |-> fs[p]]

\* readdirSync(RESULTS_DIR): the names of the files in the directory.
DirPrefix == RESULTS_DIR \o "/"
BaseName(path) == SubSeq(path, Len(DirPrefix) + 1, Len(path))
ReaddirSync(fs) == {BaseName(p) : p \in DOMAIN fs}

-----------------------------------------------------------------------------
(* performance-storage.ts: reading *)

\* A loadBaseline that hands back what it read when JSON.parse fails.
loadBaselineRaw(fs) ==
  IF ~ExistsSync(fs, BASELINE_FILE) THEN NoReport
  ELSE IF ParseThrows(ReadFileSync(fs, BASELINE_FILE)) THEN ReadFileSync(fs, BASELINE_FILE)
  ELSE Parse(ReadFileSync(fs, BASELINE_FILE))

loadBaseline(fs) ==
  IF ~ExistsSync(fs, BASELINE_FILE) THEN NoReport
  ELSE IF ParseThrows(ReadFileSync(fs, BASELINE_FILE)) THEN NoReport
  ELSE Parse(ReadFileSync(fs, BASELINE_FILE))

loadReport(fs, filepath) ==
  IF ~ExistsSync(fs, filepath) THEN NoReport
  ELSE IF ParseThrows(ReadFileSync(fs, filepath)) THEN NoReport
  ELSE Parse(ReadFileSync(fs, filepath))

-----------------------------------------------------------------------------
(* The comparator: compareWithBaseline and the tool's compareReports *)

\* A find that looks at the first element only.
FindResultHeadOnly(results, name) ==
  IF results # <<>> /\ Head(results).testName = name THEN Head(results) ELSE Undefined

\* baseline.results.find((r) => r.testName === name): the first match.
RECURSIVE FindResult(_, _)
FindResult(results, name) ==
  IF results = <<>> THEN Undefined
  ELSE IF Head(results).testName = name THEN Head(results)
  ELSE FindResult(Tail(results), name)

\* (current - baseline) / baseline
RelativeChange(cur, base) == FDiv(FSub(cur, base), base)

\* A regression test that also flags a change equal to the threshold.
IsRegressionAtLeast(changes, regressionThreshold) ==
  ~FLt(changes.meanChange, regressionThreshold)

\* The regression and improvement tests on meanChange.
IsRegression(changes, regressionThreshold) ==
  FGt(changes.meanChange, regressionThreshold)

\* An improvement test on the size of the change, whatever its direction.
IsImprovementEitherWay(changes, improvementThreshold) ==
  \/ FLt(changes.meanChange, FNeg(improvementThreshold))
  \/ FGt(changes.meanChange, improvementThreshold)

IsImprovement(changes, improvementThreshold) ==
  FLt(changes.meanChange, FNeg(improvementThreshold))

\* One pass of the loop body for a current result that has a baseline result.
Comparison(baselineResult, currentResult, regressionThreshold, improvementThreshold) ==
  LET b == baselineResult.stats
      c == currentResult.stats
      changes ==
        [meanChange |-> RelativeChange(Get(c, "mean"), Get(b, "mean")),
         medianChange |-> RelativeChange(Get(c, "median"), Get(b, "median")),
         p95Change |-> RelativeChange(Get(c, "p95"), Get(b, "p95")),
         p99Change |-> RelativeChange(Get(c, "p99"), Get(b, "p99"))]
  IN [testName |-> currentResult.testName,
      baseline |-> b,
      current |-> c,
      changes |-> changes,
      regression |-> IsRegression(changes, regressionThreshold),
      improvement |-> IsImprovement(changes, improvementThreshold)]

\* for (const currentResult of current.results) { ... }: out collects the
\* comparisons pushed and the test names warned about.
RECURSIVE CompareLoop(_, _, _, _, _)
CompareLoop(baseline, rest, regressionThreshold, improvementThreshold, out) ==
  IF rest = <<>> THEN out
  ELSE LET currentResult == Head(rest)
           baselineResult == FindResult(baseline.results, currentResult.testName)
       IN IF baselineResult = Undefined
            THEN CompareLoop(baseline, Tail(rest), regressionThreshold,
                             improvementThreshold,
                             [out EXCEPT !.warnings = Append(@, currentResult.testName)])
            ELSE CompareLoop(baseline, Tail(rest), regressionThreshold,
                             improvementThreshold,
                             [out EXCEPT !.comparisons =
                                Append(@, Comparison(baselineResult, currentResult,
                                                     regressionThreshold,
                                                     improvementThreshold))])

NoOutput == [comparisons |-> <<>>, warnings |-> <<>>]

\* compareWithBaseline(current, regressionThreshold) of the store.
compareWithBaseline(fs, current, regressionThreshold) ==
  LET baseline == loadBaseline(fs)
  IN IF baseline = NoReport
       THEN [comparisons |-> <<>>, warnings |-> <<"No baseline found">>]
       ELSE CompareLoop(baseline, current.results, regressionThreshold,
                        regressionThreshold, NoOutput)

\* The thresholds of the comparison tool.
REGRESSION_THRESHOLD == Lit(1, 10)
IMPROVEMENT_THRESHOLD == Lit(1, 10)

\* compareReports(baseline, current) of the comparison tool.
compareReports(baseline, current) ==
  CompareLoop(baseline, current.results, REGRESSION_THRESHOLD,
              IMPROVEMENT_THRESHOLD, NoOutput)

-----------------------------------------------------------------------------
(* SpecStats: calculateStats applied to every short sequence of durations *)

\* Durations as the clock can report them (milliseconds).
DurationValues == {Num(0), Num(1), Num(5), Num(7), Rat(1, 2)}

SeqsUpTo(S, k) == UNION {[1..n -> S] : n \in 0..k}

NoFiles == [p \in {} |-> 0]
NoArgs == [none |-> TRUE]

\* The longest batch of durations.
MaxBatch == 101

\* The most slow samples in a long batch.
MaxSlow == 6

\* Batch lengths: the iteration counts the benchmark suite asks for, and one
\* more than a hundred.
BatchSizes == {10, 20, 50, 100, MaxBatch}

\* Long batches: some slow samples followed by fast ones.
LongBatches ==
  {[i \in 1..n |-> IF i <= k THEN Num(5) ELSE Num(1)] :
     n \in BatchSizes, k \in 0..MaxSlow}

InitStats ==
  /\ durations \in SeqsUpTo(DurationValues, MaxLen) \cup LongBatches
  /\ statsOut = Pending
  /\ args = NoArgs
  /\ now = 0
  /\ dirExists = FALSE
  /\ files = NoFiles
  /\ last = Pending
  /\ savedBaseline = NoReport
  /\ bench = NoBench
  /\ tracker = NoTracker

\* calculateStats(durations): the sort acts on the spread copy, so the
\* caller's array keeps its order.
CallCalculateStats ==
  /\ statsOut = Pending
  /\ statsOut' = Returned(calculateStats(durations))
  /\ args' = [durations |-> durations]
  /\ durations' = durations
  /\ UNCHANGED <<bench, tracker, now, dirExists, files, last, savedBaseline>>

\* The array arr with its elements in the order perm gives.
Reordered(arr, perm) == [i \in DOMAIN arr |-> arr[perm[i]]]

\* Reorderings of an array: every one of a short array, the reversal of a
\* long one.
Reorderings(arr) ==
  IF Len(arr) <= MaxLen
  THEN {Reordered(arr, perm) : perm \in Permutations(DOMAIN arr)}
  ELSE {[i \in DOMAIN arr |-> arr[Len(arr) + 1 - i]]}

\* A second call, on the same durations in another order.
CallCalculateStatsReordered ==
  /\ statsOut # Pending
  /\ last = Pending
  /\ \E reordered \in Reorderings(durations) :
       last' = Returned([input |-> reordered, stats |-> calculateStats(reordered)])
  /\ UNCHANGED <<bench, tracker, durations, statsOut, args, now, dirExists, files, savedBaseline>>

NextStats == CallCalculateStats \/ CallCalculateStatsReordered

SpecStats == InitStats /\ [][NextStats]_vars

\* C5: calculateStats given an empty sequence of durations fails with an
\* InvalidInput error instead of returning a summary.
C5_EmptyInputFails ==
  (statsOut # Pending /\ durations = <<>>) => statsOut.threw

\* C6: for every non-empty sequence of durations the summary satisfies
\* min <= median <= p95 <= p99 <= max, min <= mean <= max and stdDev >= 0.
C6_SummaryOrdered ==
  (statsOut # Pending /\ durations # <<>>) =>
    LET st == statsOut.value
    IN /\ FLe(st.min, st.median)
       /\ FLe(st.median, st.p95)
       /\ FLe(st.p95, st.p99)
       /\ FLe(st.p99, st.max)
       /\ FLe(st.min, st.mean)
       /\ FLe(st.mean, st.max)
       /\ FLe(Num(0), st.stdDev)

\* The number of durations below v, and the number not above it.
CountBelow(durs, v) == Cardinality({i \in DOMAIN durs : LtN(durs[i], v)})
CountUpTo(durs, v) == Cardinality({i \in DOMAIN durs : ~LtN(v, durs[i])})

\* v is the element an ascending arrangement of durs holds at zero-based
\* index k.
IsAtRank(durs, v, k) ==
  /\ \E i \in DOMAIN durs : durs[i] = v
  /\ CountBelow(durs, v) <= k
  /\ k < CountUpTo(durs, v)

\* C21: for every n >= 1 the summary follows the nearest-rank rule on the
\* ascending arrangement of the durations: median is the element at index
\* floor(n/2), min at 0, max at n-1, p95 at floor(n*0.95) and p99 at
\* floor(n*0.99), every index inside 0..n-1.
C21_NearestRank ==
  (statsOut # Pending /\ durations # <<>>) =>
    LET st == statsOut.value
        n == Len(durations)
    IN /\ IsAtRank(durations, st.median, n \div 2)
       /\ IsAtRank(durations, st.min, 0)
       /\ IsAtRank(durations, st.max, n - 1)
       /\ IsAtRank(durations, st.p95, (95 * n) \div 100)
       /\ IsAtRank(durations, st.p99, (99 * n) \div 100)

\* A batch of a hundred durations, five of them slow, has been summarised:
\* p95 is the slow value at index 95; and so has a batch of one.
C21_Witness ==
  /\ statsOut # Pending
  /\ Len(durations) = 100
  /\ CountBelow(durations, Num(5)) = 95
  /\ statsOut.value.p95 = Num(5)
  /\ statsOut.value.median = Num(1)

\* C22: calculateStats gives the same summary, field by field, for a
\* non-empty sequence of durations and for any reordering of it, and the
\* sequence the caller passed is left in its original order.
C22_PermutationInvariant ==
  /\ (statsOut # Pending /\ last # Pending /\ durations # <<>>) =>
       \A field \in DOMAIN statsOut.value :
         last.value.stats[field] = statsOut.value[field]
  /\ statsOut # Pending => durations = args.durations

\* Three distinct durations were summarised in two different orders, neither
\* of them ascending.
C22_Witness ==
  /\ statsOut # Pending
  /\ last # Pending
  /\ Len(durations) = 3
  /\ durations[1] # durations[2] /\ durations[2] # durations[3] /\ durations[1] # durations[3]
  /\ last.value.input # durations
  /\ SortedCopy(durations) \notin {durations, last.value.input}

-----------------------------------------------------------------------------
(* Test results and reports *)

\* new Date().toISOString() at the clock reading t (milliseconds).
ToISOString(t) ==
  "2025-01-15T10:30:00."
    \o (IF t < 10 THEN "00" ELSE IF t < 100 THEN "0" ELSE "") \o ToString(t) \o "Z"

Environment == [node |-> "v22.14.0", platform |-> "linux", arch |-> "x64"]

\* A test result as the suites build it from a benchmark over the samples run.
TestResultOf(testName, run) ==
  [testName |-> testName,
   timestamp |-> ToISOString(0),
   stats |-> calculateStats(run),
   iterations |-> Len(run)]

ReportOf(testSuite, t, results) ==
  [testSuite |-> testSuite,
   timestamp |-> ToISOString(t),
   environment |-> Environment,
   results |-> results]

\* Sample runs: means 10, 11 (median 12), 13, 9, 8 and 0, and the run of a
\* benchmark asked for no iteration.
RunNone == <<>>
Run10 == <<Num(10)>>
Run11 == <<Num(10), Num(12)>>
Run13 == <<Num(13)>>
Run9 == <<Num(9)>>
Run8 == <<Num(8)>>
Run0 == <<Num(0)>>

-----------------------------------------------------------------------------
(* SpecCompare: both comparators applied to a stored baseline and a current
   report *)

CurrentResults ==
  {TestResultOf("X", r) : r \in {Run10, Run11, Run13, Run9, Run8, Run0}}
    \cup {TestResultOf("Y", Run10), TestResultOf("Z", Run11), TestResultOf("X", RunNone)}

BaselineResultLists ==
  {<<TestResultOf("X", Run10), TestResultOf("Y", Run10)>>,
   <<TestResultOf("Y", Run13)>>,
   <<TestResultOf("Y", Run10), TestResultOf("X", Run0)>>,
   <<TestResultOf("X", Run13), TestResultOf("X", Run10)>>,
   <<TestResultOf("X", RunNone)>>}

\* regressionThreshold as callers pass it: the default 0.1, the 0.15 of the
\* export tooling, zero, one half and a negative value.
Thresholds == {Lit(1, 10), Lit(3, 20), Num(0), Lit(1, 2), Lit(-1, 10)}

BaselineOnly(report, t) ==
  WriteFileSync(NoFiles, BASELINE_FILE, Stringify(report), t)

InitCompare ==
  /\ durations = <<>>
  /\ statsOut = Pending
  /\ args \in [current : {ReportOf("ipc-performance", 1, rs) :
                            rs \in SeqsUpTo(CurrentResults, MaxResults)},
               threshold : Thresholds]
  /\ now = 1
  /\ dirExists = TRUE
  /\ \/ files = NoFiles /\ savedBaseline = NoReport
     \/ \E rs \in BaselineResultLists :
          /\ files = BaselineOnly(ReportOf("ipc-performance", 0, rs), 0)
          /\ savedBaseline = ReportOf("ipc-performance", 0, rs)
  /\ last = Pending
  /\ bench = NoBench
  /\ tracker = NoTracker

CallCompareWithBaseline ==
  /\ last = Pending
  /\ last' = [op |-> "compareWithBaseline",
              out |-> Returned(compareWithBaseline(files, args.current, args.threshold))]
  /\ UNCHANGED <<bench, tracker, durations, statsOut, args, now, dirExists, files, savedBaseline>>

\* The tool compares two reports it has read from files.
CallCompareReports ==
  /\ last = Pending
  /\ ExistsSync(files, BASELINE_FILE)
  /\ last' = [op |-> "compareReports",
              out |-> Returned(compareReports(Parse(ReadFileSync(files, BASELINE_FILE)),
                                              args.current))]
  /\ UNCHANGED <<bench, tracker, durations, statsOut, args, now, dirExists, files, savedBaseline>>

NextCompare == CallCompareWithBaseline \/ CallCompareReports

SpecCompare == InitCompare /\ [][NextCompare]_vars

\* The comparisons and the warnings of the comparator call made.
Comparisons == last.out.value.comparisons
Warnings == last.out.value.warnings

\* The threshold in force in the call made: the argument of
\* compareWithBaseline, 0.10 in the tool.
ThresholdInForce ==
  IF last.op = "compareWithBaseline" THEN args.threshold ELSE Lit(1, 10)

\* The results of the stored baseline.
StoredBaselineResults == Parse(ReadFileSync(files, BASELINE_FILE)).results

\* C1: for every matched pair and every threshold t, both comparators set
\* regression = (meanChange > t) and improvement = (meanChange < -t) with
\* meanChange = (current.mean - baseline.mean) / baseline.mean; a meanChange
\* equal to +t is no regression, one equal to -t is no improvement, and the
\* median, p95 and p99 do not enter the classification.
C1_ThresholdClassification ==
  (last # Pending /\ ExistsSync(files, BASELINE_FILE)) =>
    \A i \in 1..Len(Comparisons) :
      LET c == Comparisons[i]
          t == ThresholdInForce
          meanChange == FDiv(FSub(Get(c.current, "mean"), Get(c.baseline, "mean")),
                             Get(c.baseline, "mean"))
      IN /\ \E k \in 1..Len(StoredBaselineResults) :
              /\ StoredBaselineResults[k].testName = c.testName
              /\ StoredBaselineResults[k].stats = c.baseline
         /\ \E k \in 1..Len(args.current.results) :
              /\ args.current.results[k].testName = c.testName
              /\ args.current.results[k].stats = c.current
         /\ c.changes.meanChange = meanChange
         /\ c.regression = FGt(meanChange, t)
         /\ c.improvement = FLt(meanChange, FNeg(t))
         /\ (meanChange = t => ~c.regression)
         /\ (meanChange = FNeg(t) => ~c.improvement)

\* C1 witness: under a positive threshold one pair has meanChange = +t with a
\* median change above t and is no regression, another has meanChange = -t and
\* is no improvement, a third is a regression.
C1_Witness ==
  /\ last # Pending
  /\ last.op = "compareWithBaseline"
  /\ FGt(args.threshold, Num(0))
  /\ \E i, j \in 1..Len(Comparisons) :
       /\ Comparisons[i].changes.meanChange = args.threshold
       /\ FGt(Comparisons[i].changes.medianChange, args.threshold)
       /\ ~Comparisons[i].regression
       /\ Comparisons[j].changes.meanChange = FNeg(args.threshold)
       /\ ~Comparisons[j].improvement

\* The current results whose test name some baseline result bears, and the
\* others, both in the order of current.results.
WithCounterpart(baselineResults, currentResults) ==
  SelectSeq(currentResults,
            LAMBDA cr : \E k \in 1..Len(baselineResults) :
                          baselineResults[k].testName = cr.testName)

WithoutCounterpart(baselineResults, currentResults) ==
  SelectSeq(currentResults,
            LAMBDA cr : \A k \in 1..Len(baselineResults) :
                          baselineResults[k].testName # cr.testName)

\* C2: the comparator returns exactly one comparison for each current result
\* whose test name equals that of a baseline result, in the order of
\* current.results; a current test without counterpart is skipped with a
\* warning, a baseline test absent from current is ignored, and without any
\* common name the result is the empty sequence, not an error.
C2_OnePerMatchInOrder ==
  (last # Pending /\ ExistsSync(files, BASELINE_FILE)) =>
    LET hit == WithCounterpart(StoredBaselineResults, args.current.results)
        miss == WithoutCounterpart(StoredBaselineResults, args.current.results)
    IN /\ ~last.out.threw
       /\ Len(Comparisons) = Len(hit)
       /\ \A i \in 1..Len(hit) :
            /\ Comparisons[i].testName = hit[i].testName
            /\ Comparisons[i].current = hit[i].stats
       /\ Len(Warnings) = Len(miss)
       /\ \A i \in 1..Len(miss) : Warnings[i] = miss[i].testName

\* C2 witness: baseline {X, Y}, current <<Z, X>>: one comparison, for X, one
\* warning, for Z, and nothing about Y.
C2_Witness ==
  /\ last # Pending
  /\ ExistsSync(files, BASELINE_FILE)
  /\ {StoredBaselineResults[k].testName : k \in 1..Len(StoredBaselineResults)} = {"X", "Y"}
  /\ Len(args.current.results) = 2
  /\ args.current.results[1].testName = "Z"
  /\ args.current.results[2].testName = "X"
  /\ Len(Comparisons) = 1
  /\ Comparisons[1].testName = "X"
  /\ Warnings = <<"Z">>

C23_IdenticalMeansStable ==
  (last # Pending /\ ExistsSync(files, BASELINE_FILE) /\ FGt(ThresholdInForce, Num(0))) =>
    \A i \in 1..Len(Comparisons) :
      LET c == Comparisons[i]
      IN (IsFinite(Get(c.baseline, "mean")) /\ Get(c.baseline, "mean") = Get(c.current, "mean")) =>
           /\ c.changes.meanChange = Num(0)
           /\ ~c.regression
           /\ ~c.improvement

-----------------------------------------------------------------------------
(* performance-storage.ts: writing *)

\* str.replace(/[:.]/g, '-')
RECURSIVE ReplaceColonDot(_)
ReplaceColonDot(str) ==
  IF Len(str) = 0 THEN ""
  ELSE LET ch == SubSeq(str, 1, 1)
       IN (IF ch = ":" \/ ch = "." THEN "-" ELSE ch)
            \o ReplaceColonDot(SubSeq(str, 2, Len(str)))

\* new Date().toISOString().replace(/[:.]/g, '-'), tabulated over the clock.
FileStamps == [t \in 0..(MaxTime + 1) |-> ReplaceColonDot(ToISOString(t))]
FileStamp(t) == FileStamps[t]

ReportFileName(testSuite, t) == testSuite \o "_report_" \o FileStamp(t) \o ".json"
ResultFileName(testSuite, t) == testSuite \o "_" \o FileStamp(t) \o ".json"
CsvFileName(testSuite, t) == testSuite \o "_" \o FileStamp(t) \o ".csv"

\* ensureResultsDir(): whether the directory exists afterwards.
ensureResultsDir(exists) == IF ~exists THEN TRUE ELSE exists

\* getGitCommit() and getGitBranch() in a checkout with git at hand.
GitCommit == "abc1234"
GitBranch == "main"

\* JSON.stringify(result, null, 2) of a single test result.
StringifyResult(result) == [json |-> TRUE, value |-> JsonResult(result)]

\* saveTestResult(testSuite, testName, stats, iterations, metadata) at time t:
\* the files afterwards.
saveTestResult(fs, testSuite, testName, stats, iterations, metadata, t) ==
  LET result == [testName |-> testName,
                 timestamp |-> ToISOString(t),
                 commit |-> GitCommit,
                 branch |-> GitBranch,
                 stats |-> stats,
                 iterations |-> iterations,
                 metadata |-> metadata]
      filepath == Join(RESULTS_DIR, ResultFileName(testSuite, t))
  IN WriteFileSync(fs, filepath, StringifyResult(result), t)

\* The report savePerformanceReport(testSuite, results) builds at time t.
BuiltReport(testSuite, results, t) == ReportOf(testSuite, t, results)

\* The path savePerformanceReport(testSuite, results) writes and returns.
ReportPath(testSuite, t) == Join(RESULTS_DIR, ReportFileName(testSuite, t))

\* savePerformanceReport(testSuite, results) at time t: the files afterwards.
savePerformanceReport(fs, testSuite, results, t) ==
  WriteFileSync(fs, ReportPath(testSuite, t),
                Stringify(BuiltReport(testSuite, results, t)), t)

\* saveAsBaseline(report) at time t: the files afterwards.
saveAsBaseline(fs, report, t) == WriteFileSync(fs, BASELINE_FILE, Stringify(report), t)

\* Number.prototype.toFixed(2): the hundredths nearest to the value, the
\* larger one on a tie; text that is no number for NaN and the infinities.
ToFixed2(x) ==
  IF ~IsFinite(x) THEN [text |-> "NaN"]
  ELSE LET a == Abs(x.num) * 100
           m == a \div x.den
           r == a - m * x.den
       IN [hundredths |-> Sign(x.num) * (IF 2 * r >= x.den THEN m + 1 ELSE m)]

\* The lines of the CSV text exportToCSV writes, after the header line.
CsvRows(report) ==
  [i \in 1..Len(report.results) |->
     LET result == report.results[i]
     IN <<result.testName, result.timestamp,
          ToFixed2(result.stats.mean), ToFixed2(result.stats.median),
          ToFixed2(result.stats.min), ToFixed2(result.stats.max),
          ToFixed2(result.stats.p95), ToFixed2(result.stats.p99),
          ToFixed2(result.stats.stdDev), result.iterations>>]

\* exportToCSV(report) at time t in an existing directory: the path written.
CsvPath(report, t) == Join(RESULTS_DIR, CsvFileName(report.testSuite, t))

\* A filter that forgets to spare the baseline.
CleanupCandidatesAll(fs) == {f \in ReaddirSync(fs) : EndsWith(f, ".json")}

\* The result files cleanupOldResults considers: every .json file but the
\* baseline.
CleanupCandidates(fs) ==
  {f \in ReaddirSync(fs) : EndsWith(f, ".json") /\ f # BASELINE_NAME}

MTime(fs, f) == fs[Join(RESULTS_DIR, f)].mtime

\* The candidates in an order that ignores the modification times.
Unsorted(fs, names) ==
  {order \in [1..Cardinality(names) -> names] :
     \A i, j \in DOMAIN order : i # j => order[i] # order[j]}

\* The arrays .sort((a, b) => b.mtime - a.mtime) can yield: the candidates,
\* most recently modified first; files of equal mtime in the order readdirSync
\* listed them, which the file system decides.
SortedByMTime(fs, names) ==
  {order \in [1..Cardinality(names) -> names] :
     /\ \A i, j \in DOMAIN order : i # j => order[i] # order[j]
     /\ \A i, j \in DOMAIN order : i < j => MTime(fs, order[i]) >= MTime(fs, order[j])}

\* arr.slice(start) for an integer start: a negative start counts from the end.
Slice(arr, start) ==
  LET from == IF start < 0 THEN (IF Len(arr) + start < 0 THEN 0 ELSE Len(arr) + start)
              ELSE (IF start > Len(arr) THEN Len(arr) ELSE start)
  IN SubSeq(arr, from + 1, Len(arr))

\* The files left once every file of toDelete is unlinked.
RECURSIVE UnlinkAll(_, _)
UnlinkAll(fs, toDelete) ==
  IF toDelete = <<>> THEN fs
  ELSE UnlinkAll(UnlinkSync(fs, Join(RESULTS_DIR, Head(toDelete))), Tail(toDelete))

\* cleanupOldResults(keepLast) with the sorted array order: the files afterwards.
cleanupOldResults(fs, order, keepLast) == UnlinkAll(fs, Slice(order, keepLast))

-----------------------------------------------------------------------------
(* Spec: the store, called in any order while the clock runs *)

\* metadata as TestResultTracker.track passes it on: a memory delta, or the
\* undefined of an omitted argument.
WithMetadata(result, metadata) ==
  [k \in DOMAIN result \cup {"metadata"} |->
     IF k = "metadata" THEN metadata ELSE result[k]]

ResultsA == <<WithMetadata(TestResultOf("X", Run10), Undefined)>>
ResultsB ==
  <<TestResultOf("X", Run13),
    WithMetadata(TestResultOf("Z", Run11), [memoryDelta |-> Num(5)])>>

\* The results of a suite whose only benchmark ran no iteration.
EmptyRunResults == <<TestResultOf("X", RunNone)>>

\* The suites and the results they hand to savePerformanceReport.
SuiteRuns ==
  {<<"ipc-performance", ResultsA>>, <<"ipc-performance", ResultsB>>,
   <<"store-performance", EmptyRunResults>>}

\* The reports the suites build themselves, for saveAsBaseline,
\* compareWithBaseline and exportToCSV.
ReportA == ReportOf("ipc-performance", 0, ResultsA)
ReportB == ReportOf("ipc-performance", 0, ResultsB)
EmptyRunReport == ReportOf("ipc-performance", 0, EmptyRunResults)
Reports == {ReportA, ReportB, EmptyRunReport}

\* The single result saveTestResult is called with.
SingleStats == calculateStats(Run10)

\* keepLast as callers pass it.
KeepLastValues == {-1, 0, 1, 2}

MissingPath == Join(RESULTS_DIR, "missing.json")

ResultFiles(fs) == DOMAIN fs \ {BASELINE_FILE}

\* The directory has room for a file at path.
HasRoom(fs, path) == path \in DOMAIN fs \/ Cardinality(ResultFiles(fs)) < MaxFiles

Init ==
  /\ durations = <<>>
  /\ statsOut = Pending
  /\ args = NoArgs
  /\ now = 0
  /\ dirExists \in BOOLEAN
  /\ files = NoFiles
  /\ last = Pending
  /\ savedBaseline = NoReport
  /\ bench = NoBench
  /\ tracker = NoTracker

Tick ==
  /\ now < MaxTime
  /\ now' = now + 1
  /\ UNCHANGED <<bench, tracker, durations, statsOut, args, dirExists, files, last, savedBaseline>>

SaveTestResult ==
  \E testSuite \in {"ipc-performance"} :
    /\ HasRoom(files, Join(RESULTS_DIR, ResultFileName(testSuite, now)))
    /\ dirExists' = ensureResultsDir(dirExists)
    /\ files' = saveTestResult(files, testSuite, "X", SingleStats, 1, Undefined, now)
    /\ last' = [op |-> "saveTestResult", out |-> Returned(Undefined)]
    /\ UNCHANGED <<bench, tracker, durations, statsOut, args, now, savedBaseline>>

SavePerformanceReport ==
  \E sr \in SuiteRuns :
    /\ HasRoom(files, ReportPath(sr[1], now))
    /\ dirExists' = ensureResultsDir(dirExists)
    /\ files' = savePerformanceReport(files, sr[1], sr[2], now)
    /\ last' = [op |-> "savePerformanceReport",
                report |-> BuiltReport(sr[1], sr[2], now),
                replaced |-> ExistsSync(files, ReportPath(sr[1], now)),
                out |-> Returned(ReportPath(sr[1], now))]
    /\ UNCHANGED <<bench, tracker, durations, statsOut, args, now, savedBaseline>>

SaveAsBaseline ==
  \E report \in Reports :
    /\ dirExists' = ensureResultsDir(dirExists)
    /\ files' = saveAsBaseline(files, report, now)
    /\ savedBaseline' = report
    /\ last' = [op |-> "saveAsBaseline",
                report |-> report,
                before |-> loadBaseline(files),
                out |-> Returned(Undefined)]
    /\ UNCHANGED <<bench, tracker, durations, statsOut, args, now>>

LoadBaseline ==
  /\ last' = [op |-> "loadBaseline", out |-> Returned(loadBaseline(files))]
  /\ UNCHANGED <<bench, tracker, durations, statsOut, args, now, dirExists, files, savedBaseline>>

LoadReport ==
  \E filepath \in DOMAIN files \cup {MissingPath} :
    /\ last' = [op |-> "loadReport",
                filepath |-> filepath,
                out |-> Returned(loadReport(files, filepath))]
    /\ UNCHANGED <<bench, tracker, durations, statsOut, args, now, dirExists, files, savedBaseline>>

CompareWithBaseline ==
  \E current \in {ReportB} :
    /\ last' = [op |-> "compareWithBaseline",
                current |-> current,
                out |-> Returned(compareWithBaseline(files, current, Lit(1, 10)))]
    /\ UNCHANGED <<bench, tracker, durations, statsOut, args, now, dirExists, files, savedBaseline>>

\* exportToCSV does not create the directory: writeFileSync throws ENOENT
\* when it is missing.
ExportToCSV ==
  \E report \in {ReportA} :
    /\ HasRoom(files, CsvPath(report, now))
    /\ IF dirExists
         THEN /\ files' = WriteFileSync(files, CsvPath(report, now),
                                        PlainText(CsvRows(report)), now)
              /\ last' = [op |-> "exportToCSV", out |-> Returned(CsvPath(report, now))]
         ELSE /\ files' = files
              /\ last' = [op |-> "exportToCSV", out |-> Threw("ENOENT")]
    /\ UNCHANGED <<bench, tracker, durations, statsOut, args, now, dirExists, savedBaseline>>

\* deleted is what the call logs: the names of the files it unlinked.
CleanupOldResults ==
  \E keepLast \in KeepLastValues :
    /\ IF ~dirExists
         THEN /\ files' = files
              /\ last' = [op |-> "cleanupOldResults", keepLast |-> keepLast,
                          deleted |-> <<>>, out |-> Returned(Undefined)]
         ELSE \E order \in SortedByMTime(files, CleanupCandidates(files)) :
                /\ files' = cleanupOldResults(files, order, keepLast)
                /\ last' = [op |-> "cleanupOldResults", keepLast |-> keepLast,
                            deleted |-> Slice(order, keepLast),
                            out |-> Returned(Undefined)]
    /\ UNCHANGED <<bench, tracker, durations, statsOut, args, now, dirExists, savedBaseline>>

Next ==
  \/ Tick
  \/ SaveTestResult
  \/ SavePerformanceReport
  \/ SaveAsBaseline
  \/ LoadBaseline
  \/ LoadReport
  \/ CompareWithBaseline
  \/ ExportToCSV
  \/ CleanupOldResults

Spec == Init /\ [][Next]_vars

-----------------------------------------------------------------------------
(* Claims about the store *)

\* Field by field equality of two reports; a property that is absent and one
\* that holds undefined are the same.
SameStats(a, b) == \A k \in StatKeys : Get(a, k) = Get(b, k)

SameMetadata(a, b) ==
  IF a = Undefined \/ b = Undefined THEN a = b
  ELSE Get(a, "memoryDelta") = Get(b, "memoryDelta")

SameResult(a, b) ==
  /\ a.testName = b.testName
  /\ a.timestamp = b.timestamp
  /\ a.iterations = b.iterations
  /\ SameStats(a.stats, b.stats)
  /\ SameMetadata(Get(a, "metadata"), Get(b, "metadata"))

IsReport(a) == {"testSuite", "timestamp", "environment", "results"} \subseteq DOMAIN a

SameReport(a, b) ==
  /\ IsReport(a)
  /\ IsReport(b)
  /\ a.testSuite = b.testSuite
  /\ a.timestamp = b.timestamp
  /\ a.environment = b.environment
  /\ Len(a.results) = Len(b.results)
  /\ \A i \in 1..Len(a.results) : SameResult(a.results[i], b.results[i])

\* The step is a call of savePerformanceReport.
IsSaveReportStep ==
  now' = now /\ last' # Pending /\ last'.op = "savePerformanceReport"

\* C7: every call of savePerformanceReport creates a new persisted record and
\* leaves every record saved before unchanged, however close in time the calls
\* are, and the location it returns loads to the report it saved.
C7_EverySaveCreatesNewRecord ==
  [][IsSaveReportStep =>
       /\ ~ExistsSync(files, last'.out.value)
       /\ \A p \in DOMAIN files : ExistsSync(files', p) /\ files'[p] = files[p]
       /\ SameReport(loadReport(files', last'.out.value), last'.report)]_vars

\* savePerformanceReport has just returned.
JustSavedReport == last # Pending /\ last.op = "savePerformanceReport"

\* C11: round trip: loadReport of the location savePerformanceReport returned
\* yields a report equal in all fields (testSuite, timestamp, environment, the
\* results in order with their stats, iterations and metadata) to the report
\* saved.
C11_SaveLoadRoundTrip ==
  JustSavedReport => SameReport(loadReport(files, last.out.value), last.report)

\* The baseline file, or NoReport in its place when there is none.
BaselineEntry(fs) == IF ExistsSync(fs, BASELINE_FILE) THEN fs[BASELINE_FILE] ELSE NoReport

\* The step is a call of saveAsBaseline.
IsSaveAsBaselineStep ==
  now' = now /\ last' # Pending /\ last'.op = "saveAsBaseline"

\* C8: whatever store operations are called, only saveAsBaseline creates,
\* modifies or deletes the baseline file; so loadBaseline returns absent
\* exactly when saveAsBaseline was never called, and pruning never removes the
\* baseline.
C8_BaselineOnlyBySaveAsBaseline ==
  /\ [](loadBaseline(files) = NoReport <=> savedBaseline = NoReport)
  /\ [][BaselineEntry(files') # BaselineEntry(files) => IsSaveAsBaselineStep]_vars

\* C8 witness: a pruning with keepLast = 0 has deleted result files, and the
\* baseline saved before is still there.
C8_Witness ==
  /\ last # Pending
  /\ last.op = "cleanupOldResults"
  /\ last.keepLast = 0
  /\ Len(last.deleted) > 0
  /\ savedBaseline # NoReport
  /\ SameReport(loadBaseline(files), savedBaseline)

\* C9: after saveAsBaseline(r), loadBaseline returns a report equal to r,
\* whatever baseline there was before; after several calls, the report of the
\* last one.
C9_BaselineIsLastSaved ==
  savedBaseline # NoReport => SameReport(loadBaseline(files), savedBaseline)

\* The persisted records other than the baseline: the JSON files of the
\* directory.
PersistedRecords(fs) == {p \in DOMAIN fs : p # BASELINE_FILE /\ fs[p].data.json}

Min(a, b) == IF a < b THEN a ELSE b

\* The step is a call of cleanupOldResults.
IsCleanupStep ==
  now' = now /\ last' # Pending /\ last'.op = "cleanupOldResults"

\* C10: cleanupOldResults(keepLast) with keepLast >= 0 over N persisted
\* non-baseline records leaves exactly min(N, keepLast) of them, the most
\* recently modified ones, and deletes all the others.
C10_KeepsMostRecent ==
  [][(IsCleanupStep /\ last'.keepLast >= 0) =>
       LET before == PersistedRecords(files)
           after == PersistedRecords(files')
       IN /\ after \subseteq before
          /\ Cardinality(after) = Min(Cardinality(before), last'.keepLast)
          /\ \A p \in after : files'[p] = files[p]
          /\ \A kept \in after : \A gone \in before \ after :
               files[kept].mtime >= files[gone].mtime]_vars

\* C10 witness: a pruning with keepLast = 1 has deleted one record and left
\* one, modified later than the clock reading 0.
C10_Witness ==
  /\ last # Pending
  /\ last.op = "cleanupOldResults"
  /\ last.keepLast = 1
  /\ Len(last.deleted) = 1
  /\ Cardinality(PersistedRecords(files)) = 1
  /\ \A p \in PersistedRecords(files) : files[p].mtime > 0

\* The writing operations of the store.
Writers == {"saveTestResult", "savePerformanceReport", "saveAsBaseline", "exportToCSV"}

\* C24: every writing operation of the store (saveTestResult,
\* savePerformanceReport, saveAsBaseline, exportToCSV) creates the results
\* directory when it is absent, so it succeeds as the first operation on a
\* fresh location, and raises no error when the directory exists already.
C24_WritersCreateDirectory ==
  (last # Pending /\ last.op \in Writers) =>
    /\ ~last.out.threw
    /\ dirExists

-----------------------------------------------------------------------------
(* compare-performance.ts: the comparison tool *)

\* The null getLatestReport returns in place of a path.
NoPath == ""

\* loadReport(filepath) of the tool: throws where the store's returns null.
loadReportOrThrow(fs, filepath) ==
  IF ~ExistsSync(fs, filepath) THEN Threw("File not found")
  ELSE IF ParseThrows(ReadFileSync(fs, filepath)) THEN Threw("SyntaxError")
  ELSE Returned(Parse(ReadFileSync(fs, filepath)))

\* The names that pass getLatestReport's filter.
LatestCandidates(fs) ==
  {f \in ReaddirSync(fs) : EndsWith(f, "_report_") /\ EndsWith(f, ".json")}

\* The values getLatestReport() can return: the path of a most recently
\* modified candidate, or null.
getLatestReport(fs, exists) ==
  IF ~exists THEN {NoPath}
  ELSE IF LatestCandidates(fs) = {} THEN {NoPath}
  ELSE {Join(RESULTS_DIR, order[1]) : order \in SortedByMTime(fs, LatestCandidates(fs))}

\* x.toFixed(2) throws a TypeError when x is null or undefined.
ToFixedThrows(x) == x = Undefined \/ x = Null

\* The detailed results of printComparison throw on a statistic that is no
\* number.
PrintThrows(comparisons) ==
  \E i \in 1..Len(comparisons) : \E k \in {"mean", "median", "p95", "p99"} :
    \/ ToFixedThrows(Get(comparisons[i].baseline, k))
    \/ ToFixedThrows(Get(comparisons[i].current, k))

regressionCount(comparisons) ==
  Cardinality({i \in 1..Len(comparisons) : comparisons[i].regression})

improvementCount(comparisons) ==
  Cardinality({i \in 1..Len(comparisons) : comparisons[i].improvement})

\* How a run of the tool ends: the exit status, the headline of what it wrote
\* to stderr (for an uncaught error, what node prints of it), the last
\* headline on stdout, the error it died of, and the comparison it made, if
\* any.
Finished(exit, stderr, stdout, uncaught, compared, comparisons, baselinePath, currentPath) ==
  [exit |-> exit, stderr |-> stderr, stdout |-> stdout, uncaught |-> uncaught,
   compared |-> compared, comparisons |-> comparisons,
   baselinePath |-> baselinePath, currentPath |-> currentPath]

\* A run that has written nothing to stdout but, in the two-argument mode, the
\* line naming the files.
Ended(exit, stderr, uncaught, compared, comparisons, baselinePath, currentPath) ==
  Finished(exit, stderr, "", uncaught, compared, comparisons, baselinePath, currentPath)

\* An exit status that also counts improvements.
ExitStatusOnAnyChange(comparisons) ==
  IF regressionCount(comparisons) + improvementCount(comparisons) > 0 THEN 1 ELSE 0

\* The exit status at the end of printComparison: process.exit(1) on a
\* regression, and the 0 of a process that runs to its end otherwise.
ExitStatus(comparisons) == IF regressionCount(comparisons) > 0 THEN 1 ELSE 0

\* The headline of the summary printComparison prints.
SummaryHeadline(comparisons) ==
  IF regressionCount(comparisons) > 0 THEN "PERFORMANCE REGRESSIONS DETECTED!"
  ELSE IF improvementCount(comparisons) > 0 THEN "PERFORMANCE IMPROVEMENTS DETECTED!"
  ELSE "Performance is stable"

\* A printComparison that leaves before it has printed the summary.
printComparisonExitFirst(comparisons, baselinePath, currentPath) ==
  IF PrintThrows(comparisons)
    THEN Finished(1, "TypeError", "DETAILED RESULTS", "TypeError", FALSE, comparisons,
                  baselinePath, currentPath)
    ELSE Finished(ExitStatus(comparisons), "", "", "", TRUE, comparisons,
                  baselinePath, currentPath)

\* printComparison(baseline, current, comparisons)
printComparison(comparisons, baselinePath, currentPath) ==
  IF PrintThrows(comparisons)
    THEN Finished(1, "TypeError", "DETAILED RESULTS", "TypeError", FALSE, comparisons,
                  baselinePath, currentPath)
    ELSE Finished(ExitStatus(comparisons), "", SummaryHeadline(comparisons), "", TRUE,
                  comparisons, baselinePath, currentPath)

\* A main that goes on to print an empty comparison.
CompareFilesUnchecked(fs, baselinePath, currentPath) ==
  LET baselineReport == loadReportOrThrow(fs, baselinePath)
      currentReport == loadReportOrThrow(fs, currentPath)
  IN IF baselineReport.threw
       THEN Ended(1, baselineReport.error, baselineReport.error, FALSE, <<>>,
                  baselinePath, currentPath)
     ELSE IF currentReport.threw
       THEN Ended(1, currentReport.error, currentReport.error, FALSE, <<>>,
                  baselinePath, currentPath)
     ELSE printComparison(
            compareReports(baselineReport.value, currentReport.value).comparisons,
            baselinePath, currentPath)

\* main() from the two loadReport calls on.
CompareFiles(fs, baselinePath, currentPath) ==
  LET baselineReport == loadReportOrThrow(fs, baselinePath)
      currentReport == loadReportOrThrow(fs, currentPath)
  IN IF baselineReport.threw
       THEN Ended(1, baselineReport.error, baselineReport.error, FALSE, <<>>,
                  baselinePath, currentPath)
     ELSE IF currentReport.threw
       THEN Ended(1, currentReport.error, currentReport.error, FALSE, <<>>,
                  baselinePath, currentPath)
     ELSE LET comparisons ==
                compareReports(baselineReport.value, currentReport.value).comparisons
          IN IF Len(comparisons) = 0
               THEN Ended(1, "No matching tests found between the two reports", "",
                          FALSE, comparisons, baselinePath, currentPath)
               ELSE printComparison(comparisons, baselinePath, currentPath)

\* A main that takes its two arguments the other way round.
mainSwapped(fs, argv, latestFile) ==
  IF Len(argv) = 2 THEN CompareFiles(fs, argv[2], argv[1])
  ELSE IF Len(argv) = 0
    THEN IF ~ExistsSync(fs, BASELINE_FILE)
           THEN Ended(1, "No baseline found!", "", FALSE, <<>>, NoPath, NoPath)
         ELSE IF latestFile = NoPath
           THEN Ended(1, "No performance results found!", "", FALSE, <<>>,
                      BASELINE_FILE, NoPath)
         ELSE CompareFiles(fs, BASELINE_FILE, latestFile)
  ELSE Ended(1, "Usage:", "", FALSE, <<>>, NoPath, NoPath)

\* main() with process.argv.slice(2) = argv, where getLatestReport() returns
\* latestFile.
main(fs, argv, latestFile) ==
  IF Len(argv) = 2 THEN CompareFiles(fs, argv[1], argv[2])
  ELSE IF Len(argv) = 0
    THEN IF ~ExistsSync(fs, BASELINE_FILE)
           THEN Ended(1, "No baseline found!", "", FALSE, <<>>, NoPath, NoPath)
         ELSE IF latestFile = NoPath
           THEN Ended(1, "No performance results found!", "", FALSE, <<>>,
                      BASELINE_FILE, NoPath)
         ELSE CompareFiles(fs, BASELINE_FILE, latestFile)
  ELSE Ended(1, "Usage:", "", FALSE, <<>>, NoPath, NoPath)

-----------------------------------------------------------------------------
(* SpecCli: the tool run over a store that suites have written to *)

\* The command lines: no argument, one, two, or three paths.
CommandLines(fs) ==
  LET paths == DOMAIN fs \cup {MissingPath}
  IN {<<>>} \cup {<<p>> : p \in paths} \cup (paths \X paths)
       \cup {<<p, p, p>> : p \in {MissingPath}}

InitCli ==
  /\ durations = <<>>
  /\ statsOut = Pending
  /\ args = NoArgs
  /\ now = 0
  /\ files = NoFiles
  /\ dirExists \in BOOLEAN
  /\ last = Pending
  /\ savedBaseline = NoReport
  /\ bench = NoBench
  /\ tracker = NoTracker

Main ==
  \E argv \in CommandLines(files) : \E latestFile \in getLatestReport(files, dirExists) :
    /\ last' = [op |-> "main", argv |-> argv, out |-> main(files, argv, latestFile)]
    /\ UNCHANGED <<bench, tracker, durations, statsOut, args, now, dirExists, files, savedBaseline>>

NextCli ==
  \/ Tick
  \/ SavePerformanceReport
  \/ SaveAsBaseline
  \/ ExportToCSV
  \/ Main

SpecCli == InitCli /\ [][NextCli]_vars

\* Whether name holds the text part.
Contains(name, part) ==
  \E i \in 1..(Len(name) - Len(part) + 1) : SubSeq(name, i, i + Len(part) - 1) = part

\* The report files savePerformanceReport has persisted.
PersistedReports(fs) ==
  {p \in DOMAIN fs : p # BASELINE_FILE /\ Contains(p, "_report_") /\ EndsWith(p, ".json")}

\* The tool has just run without arguments.
RanWithoutArguments == last # Pending /\ last.op = "main" /\ last.argv = <<>>

\* C3: run with no arguments while a baseline and at least one persisted
\* report exist, the tool compares the most recently modified persisted report
\* against the baseline; it exits 1 with the 'no baseline' message only when
\* the baseline is absent, and with the 'no results' message only when every
\* persisted report is absent.
C3_NoArgumentsComparesLatest ==
  RanWithoutArguments =>
    /\ (ExistsSync(files, BASELINE_FILE) /\ PersistedReports(files) # {}) =>
         /\ last.out.baselinePath = BASELINE_FILE
         /\ last.out.currentPath \in PersistedReports(files)
         /\ \A p \in PersistedReports(files) :
              files[last.out.currentPath].mtime >= files[p].mtime
    /\ last.out.stderr = "No baseline found!" => ~ExistsSync(files, BASELINE_FILE)
    /\ last.out.stderr = "No performance results found!" => PersistedReports(files) = {}

\* The tool has just completed a comparison with at least one result.
CompletedComparison ==
  /\ last # Pending
  /\ last.op = "main"
  /\ last.out.compared
  /\ Len(last.out.comparisons) > 0

\* C4: when the tool completes a comparison with at least one result, it exits
\* 1 if at least one result is a regression and 0 otherwise; improvements and
\* stable results alone give 0.
C4_ExitOneIffRegression ==
  CompletedComparison =>
    /\ last.out.exit \in {0, 1}
    /\ last.out.exit = 1 <=>
         \E i \in 1..Len(last.out.comparisons) : last.out.comparisons[i].regression

\* C4 witness: a completed comparison with an improvement and no regression
\* has exited 0.
C4_Witness ==
  /\ CompletedComparison
  /\ last.out.exit = 0
  /\ \E i \in 1..Len(last.out.comparisons) : last.out.comparisons[i].improvement

-----------------------------------------------------------------------------
(* SpecLoad: the store's readers over directories that also hold files cut
   short or written by other hands *)

\* The text of a JSON file cut short, as a crash in mid-write leaves it.
Truncated == PlainText(<<"{ \"testSuite\": ">>)

\* No file at the path.
NoData == [none |-> TRUE]

\* fs with data at path, or fs itself for NoData.
Put(fs, path, data) ==
  IF data = NoData THEN fs ELSE WriteFileSync(fs, path, data, 0)

OldReportPath == ReportPath("ipc-performance", 0)

\* A report of a suite that shares no test name with the others.
OtherReport == ReportOf("store-performance", 0, <<TestResultOf("Y", Run10)>>)

\* The directories the readers are run over.
LoadStores ==
  {Put(Put(Put(NoFiles, BASELINE_FILE, b), OldReportPath, r), CsvPath(ReportA, 0), c) :
     b \in {NoData, Stringify(ReportA), Stringify(EmptyRunReport), Truncated},
     r \in {NoData, Stringify(ReportB), Stringify(OtherReport), Truncated},
     c \in {NoData, PlainText(CsvRows(ReportA))}}

InitLoad ==
  /\ durations = <<>>
  /\ statsOut = Pending
  /\ args = NoArgs
  /\ now = 1
  /\ dirExists = TRUE
  /\ files \in LoadStores
  /\ last = Pending
  /\ savedBaseline = NoReport
  /\ bench = NoBench
  /\ tracker = NoTracker

NextLoad == LoadBaseline \/ LoadReport

SpecLoad == InitLoad /\ [][NextLoad]_vars

\* The file at path is missing or does not hold valid JSON.
Unreadable(fs, path) == ~ExistsSync(fs, path) \/ ~fs[path].data.json

\* C12: loadReport(location) returns absent (null) and raises no error when
\* the location does not exist or its content is not valid structured data;
\* loadBaseline likewise for an unparseable baseline; neither changes any
\* stored file.
C12_UnreadableIsAbsent ==
  /\ [](last # Pending =>
          /\ ~last.out.threw
          /\ (last.op = "loadReport" /\ Unreadable(files, last.filepath))
               => last.out.value = NoReport
          /\ (last.op = "loadBaseline" /\ Unreadable(files, BASELINE_FILE))
               => last.out.value = NoReport)
  /\ [][files' = files]_vars

\* C12 witness: loadBaseline has returned absent over a baseline file that is
\* there and cut short.
C12_Witness ==
  /\ last # Pending
  /\ last.op = "loadBaseline"
  /\ ExistsSync(files, BASELINE_FILE)
  /\ files[BASELINE_FILE].data = Truncated
  /\ last.out.value = NoReport

-----------------------------------------------------------------------------
(* SpecTool: the tool run once over each of the directories of SpecLoad *)

NextTool == Main

SpecTool == InitLoad /\ [][NextTool]_vars

\* The tool has just run.
RanMain == last # Pending /\ last.op = "main"

\* The file at path is there and holds a report, or is there and does not
\* parse.
Readable(fs, path) == ExistsSync(fs, path) /\ fs[path].data.json
Corrupt(fs, path) == ExistsSync(fs, path) /\ ~fs[path].data.json

\* The tool has run with two paths.
RanWithTwoPaths == RanMain /\ Len(last.argv) = 2

\* Both files named on the command line hold reports.
BothLoaded ==
  RanWithTwoPaths /\ Readable(files, last.argv[1]) /\ Readable(files, last.argv[2])

\* The report in the file at path.
ReportAt(path) == files[path].data.value

TestNames(report) == {report.results[i].testName : i \in 1..Len(report.results)}

\* The tool has met a file that does not parse: the first one, or the second
\* one after it has loaded the first.
MetCorruptFile ==
  /\ RanWithTwoPaths
  /\ \/ Corrupt(files, last.argv[1])
     \/ Readable(files, last.argv[1]) /\ Corrupt(files, last.argv[2])

\* C13: when a report or baseline file the tool reads fails to parse, the tool
\* treats it as 'no data found' and leaves by a controlled exit; the parse
\* failure does not end it as an unhandled error.
C13_ParseFailureRecovered == MetCorruptFile => last.out.uncaught = ""

NoMatchingMessage == "No matching tests found between the two reports"

\* C14: when the two reports share no test name the tool exits 1 with the 'no
\* matching tests' message; it exits 0 only after it has compared at least one
\* pair.
C14_EmptyComparisonFails ==
  RanMain =>
    /\ (BothLoaded /\ TestNames(ReportAt(last.argv[1]))
                        \cap TestNames(ReportAt(last.argv[2])) = {})
         => /\ last.out.exit = 1
            /\ last.out.stderr = NoMatchingMessage
            /\ ~last.out.compared
    /\ last.out.exit = 0 => last.out.compared /\ Len(last.out.comparisons) > 0

\* C14 witness: two reports with tests of their own, X and Z against Y, and
\* the exit status 1.
C14_Witness ==
  /\ BothLoaded
  /\ TestNames(ReportAt(last.argv[1])) # {}
  /\ TestNames(ReportAt(last.argv[2])) # {}
  /\ TestNames(ReportAt(last.argv[1])) \cap TestNames(ReportAt(last.argv[2])) = {}
  /\ last.out.exit = 1
  /\ last.out.stderr = NoMatchingMessage

\* The statistics of the first result named testName in the report at path.
StatsAt(path, testName) == FindResult(ReportAt(path).results, testName).stats

\* C15: with two paths the tool loads the first as the baseline and the
\* second as the current report and compares these two; with one argument, or
\* with more than two, it prints the usage and exits 1 and has loaded and
\* compared nothing.
C15_TwoPathsBaselineThenCurrent ==
  RanMain =>
    /\ Len(last.argv) = 2 =>
         /\ last.out.baselinePath = last.argv[1]
         /\ last.out.currentPath = last.argv[2]
         /\ BothLoaded =>
              /\ \A i \in 1..Len(last.out.comparisons) :
                   LET c == last.out.comparisons[i]
                   IN /\ c.testName \in TestNames(ReportAt(last.argv[1]))
                      /\ c.testName \in TestNames(ReportAt(last.argv[2]))
                      /\ c.baseline = StatsAt(last.argv[1], c.testName)
                      /\ c.current = StatsAt(last.argv[2], c.testName)
              /\ Len(last.out.comparisons) =
                   Len(WithCounterpart(ReportAt(last.argv[1]).results,
                                       ReportAt(last.argv[2]).results))
    /\ Len(last.argv) \notin {0, 2} =>
         /\ last.out.exit = 1
         /\ last.out.stderr = "Usage:"
         /\ last.out.uncaught = ""
         /\ ~last.out.compared
         /\ last.out.comparisons = <<>>
         /\ last.out.baselinePath = NoPath
         /\ last.out.currentPath = NoPath

\* C15 witness: the baseline file first and a report of other timings second:
\* the comparison has the baseline's statistics on the baseline side.
C15_Witness ==
  /\ BothLoaded
  /\ last.argv[1] = BASELINE_FILE
  /\ last.argv[2] = OldReportPath
  /\ last.out.compared
  /\ \E i \in 1..Len(last.out.comparisons) :
       /\ last.out.comparisons[i].baseline # last.out.comparisons[i].current
       /\ last.out.comparisons[i].baseline = StatsAt(BASELINE_FILE, "X")

\* C16: every run of the tool that ends with a non-zero exit status has
\* printed a diagnostic before: missing baseline, no results, usage, no
\* matching tests, regressions detected, or the error of an unreadable file.
C16_NoSilentFailure ==
  (RanMain /\ last.out.exit # 0) =>
    \/ last.out.stderr # ""
    \/ last.out.stdout = "PERFORMANCE REGRESSIONS DETECTED!"

\* C16 witness: a run that has found a regression, printed it and exited 1.
C16_Witness ==
  /\ RanMain
  /\ last.out.compared
  /\ last.out.exit = 1
  /\ last.out.stderr = ""
  /\ last.out.stdout = "PERFORMANCE REGRESSIONS DETECTED!"

\* C17: with two paths of which one does not exist, the tool ends with a
\* non-zero status on a 'file not found' error and compares nothing.
C17_MissingPathIsFatal ==
  (RanWithTwoPaths /\ (~ExistsSync(files, last.argv[1])
                         \/ ~ExistsSync(files, last.argv[2]))) =>
    /\ last.out.exit # 0
    /\ last.out.uncaught = "File not found"
    /\ ~last.out.compared
    /\ last.out.comparisons = <<>>

-----------------------------------------------------------------------------
(* performance-metrics.ts: measurePerformance and benchmarkFunction *)

\* Most iterations a benchmark is asked for.
MaxIterations == 2

\* process.memoryUsage() as the process can report it.
MemoryReadings ==
  {[heapUsed |-> Num(8), heapTotal |-> Num(16), external |-> Num(1), rss |-> Num(32)],
   [heapUsed |-> Num(12), heapTotal |-> Num(16), external |-> Num(1), rss |-> Num(40)]}

\* performance.now() at the clock reading t.
PerformanceNow(t) == Num(t)

\* The PerformanceMetrics measurePerformance builds from its four readings.
MetricsOf(memoryBefore, startTime, endTime, memoryAfter) ==
  [duration |-> FSub(endTime, startTime),
   memoryBefore |-> memoryBefore,
   memoryAfter |-> memoryAfter,
   memoryDelta |->
     [heapUsed |-> FSub(memoryAfter.heapUsed, memoryBefore.heapUsed),
      heapTotal |-> FSub(memoryAfter.heapTotal, memoryBefore.heapTotal),
      external |-> FSub(memoryAfter.external, memoryBefore.external),
      rss |-> FSub(memoryAfter.rss, memoryBefore.rss)]]

\* benchmarkFunction(fn, iterations) at its first loop test.  calls lists the
\* invocations of fn: whether each is running, resolved or rejected, what it
\* yields, and when it was made and when it settled.
StartBench(iterations) ==
  [pc |-> "loop", iterations |-> iterations, i |-> 0,
   results |-> <<>>, durations |-> <<>>, metrics |-> <<>>,
   calls |-> <<>>, memoryBefore |-> Undefined, startTime |-> Undefined,
   out |-> Pending]

\* The invocation of fn made in measurePerformance: the n-th one yields n.
Invoked(n, t) == [state |-> "running", value |-> n, invokedAt |-> t, settledAt |-> t]

\* An await that goes on without waiting for the promise.
SettledOrNot(call) == TRUE

\* await fn() goes on once the promise of the call has settled.
Settled(call) == call.state # "running"

\* A loop body that drops the sample of the first, warm-up iteration.
PushSampleAfterWarmUp(b, result, iterationMetrics) ==
  IF b.i = 0 THEN [b EXCEPT !.i = @ + 1, !.pc = "loop"]
  ELSE [b EXCEPT !.results = Append(@, result),
                 !.durations = Append(@, iterationMetrics.duration),
                 !.metrics = Append(@, iterationMetrics),
                 !.i = @ + 1,
                 !.pc = "loop"]

\* The rest of the loop body once measurePerformance has returned, and i++.
PushSample(b, result, iterationMetrics) ==
  [b EXCEPT !.results = Append(@, result),
            !.durations = Append(@, iterationMetrics.duration),
            !.metrics = Append(@, iterationMetrics),
            !.i = @ + 1,
            !.pc = "loop"]

\* A loop that catches the error of an iteration and goes on with the next.
RejectionSwallowed(b, error) == [b EXCEPT !.i = @ + 1, !.pc = "loop"]

\* await fn() throws the rejection; neither function catches it, so the
\* promise of benchmarkFunction rejects with it.
RejectionPropagates(b, error) == [b EXCEPT !.pc = "done", !.out = Threw(error)]

\* The value benchmarkFunction resolves to after the loop.
BenchResult(b) ==
  [results |-> b.results, durations |-> b.durations,
   stats |-> calculateStats(b.durations), metrics |-> b.metrics]

-----------------------------------------------------------------------------
(* SpecBench: one benchmarkFunction call, the measured operation settling
   when it will *)

InitBench ==
  /\ durations = <<>>
  /\ statsOut = Pending
  /\ args = NoArgs
  /\ now = 0
  /\ dirExists = FALSE
  /\ files = NoFiles
  /\ last = Pending
  /\ savedBaseline = NoReport
  /\ bench \in {StartBench(iterations) : iterations \in 0..MaxIterations}
  /\ tracker = NoTracker

\* i < iterations: measurePerformance reads the memory and the clock and calls
\* fn.
Invoke ==
  /\ bench.pc = "loop"
  /\ bench.i < bench.iterations
  /\ \E memoryBefore \in MemoryReadings :
       bench' = [bench EXCEPT !.pc = "await",
                              !.memoryBefore = memoryBefore,
                              !.startTime = PerformanceNow(now),
                              !.calls = Append(@, Invoked(Len(@) + 1, now))]
  /\ UNCHANGED <<tracker, durations, statsOut, args, now, dirExists, files, last, savedBaseline>>

\* The measured operation completes.
FnResolves ==
  \E k \in 1..Len(bench.calls) :
    /\ bench.calls[k].state = "running"
    /\ bench' = [bench EXCEPT !.calls[k].state = "resolved", !.calls[k].settledAt = now]
    /\ UNCHANGED <<tracker, durations, statsOut, args, now, dirExists, files, last, savedBaseline>>

\* The measured operation throws or rejects.
FnRejects ==
  \E k \in 1..Len(bench.calls) :
    /\ bench.calls[k].state = "running"
    /\ bench' = [bench EXCEPT !.calls[k].state = "rejected", !.calls[k].settledAt = now]
    /\ UNCHANGED <<tracker, durations, statsOut, args, now, dirExists, files, last, savedBaseline>>

\* The call measurePerformance is waiting for.
Awaited == bench.calls[Len(bench.calls)]

\* measurePerformance resumes with the result, reads the clock and the
\* memory, and the loop body pushes the sample.
AwaitReturns ==
  /\ bench.pc = "await"
  /\ Settled(Awaited)
  /\ Awaited.state # "rejected"
  /\ \E memoryAfter \in MemoryReadings :
       bench' = PushSample(bench, Awaited.value,
                           MetricsOf(bench.memoryBefore, bench.startTime,
                                     PerformanceNow(now), memoryAfter))
  /\ UNCHANGED <<tracker, durations, statsOut, args, now, dirExists, files, last, savedBaseline>>

\* measurePerformance resumes with the rejection.
AwaitThrows ==
  /\ bench.pc = "await"
  /\ Settled(Awaited)
  /\ Awaited.state = "rejected"
  /\ bench' = RejectionPropagates(bench, "rejected")
  /\ UNCHANGED <<tracker, durations, statsOut, args, now, dirExists, files, last, savedBaseline>>

\* The loop is over: calculateStats(durations) and return.
BenchReturns ==
  /\ bench.pc = "loop"
  /\ ~(bench.i < bench.iterations)
  /\ bench' = [bench EXCEPT !.pc = "done", !.out = Returned(BenchResult(bench))]
  /\ UNCHANGED <<tracker, durations, statsOut, args, now, dirExists, files, last, savedBaseline>>

NextBench ==
  \/ Tick
  \/ Invoke
  \/ FnResolves
  \/ FnRejects
  \/ AwaitReturns
  \/ AwaitThrows
  \/ BenchReturns

SpecBench == InitBench /\ [][NextBench]_vars

\* The invocations of fn in flight.
InFlight == {k \in 1..Len(bench.calls) : bench.calls[k].state = "running"}

\* C18: within one benchmarkFunction call at most one invocation of the
\* operation is in flight, and the operation of iteration i+1 is invoked only
\* when that of iteration i has completed and its after-snapshot is taken.
C18_IterationsNeverOverlap ==
  /\ Cardinality(InFlight) <= 1
  /\ \A k \in 1..Len(bench.calls) :
       k < Len(bench.calls) =>
         /\ bench.calls[k].state = "resolved"
         /\ k <= Len(bench.metrics)
         /\ bench.calls[k].settledAt <= bench.calls[k + 1].invokedAt

\* C18 witness: the second invocation is in flight; the first has completed
\* later than it was made and its sample is taken.
C18_Witness ==
  /\ Len(bench.calls) = 2
  /\ InFlight = {2}
  /\ bench.calls[1].settledAt > bench.calls[1].invokedAt
  /\ Len(bench.metrics) = 1

\* benchmarkFunction has returned.
BenchReturned == bench.pc = "done" /\ ~bench.out.threw

\* The clock reading by which the sample of invocation k was taken: that of
\* the next invocation, or the present one after the last.
SampledBy(k) ==
  IF k < Len(bench.calls) THEN bench.calls[k + 1].invokedAt ELSE now

\* C19: when every invocation completes, benchmarkFunction(fn, iterations)
\* has invoked fn exactly iterations times and returns results, durations and
\* metrics of that length, entry i of each belonging to the i-th invocation
\* (its result, and a duration that spans it and ends before the next
\* invocation); no sample is left out and stats is computed over all of them.
C19_OneSamplePerIteration ==
  BenchReturned =>
    LET r == bench.out.value
        n == bench.iterations
    IN /\ Len(bench.calls) = n
       /\ Len(r.results) = n
       /\ Len(r.durations) = n
       /\ Len(r.metrics) = n
       /\ \A i \in 1..n :
            /\ r.results[i] = bench.calls[i].value
            /\ FLe(FSub(PerformanceNow(bench.calls[i].settledAt),
                        PerformanceNow(bench.calls[i].invokedAt)),
                   r.durations[i])
            /\ FLe(r.durations[i],
                   FSub(PerformanceNow(SampledBy(i)),
                        PerformanceNow(bench.calls[i].invokedAt)))
            /\ r.metrics[i].duration = r.durations[i]
       /\ r.stats = calculateStats(r.durations)

\* C19 witness: two iterations have returned the results 1 and 2 and two
\* durations that differ.
C19_Witness ==
  /\ BenchReturned
  /\ bench.iterations = 2
  /\ bench.out.value.results = <<1, 2>>
  /\ bench.out.value.durations[1] # bench.out.value.durations[2]

\* C20: if the operation raises or rejects at iteration k, the failure
\* propagates to the caller, the operation is not invoked again (k
\* invocations in all), and no statistics are returned.
C20_FailureAbortsBatch ==
  \A k \in 1..Len(bench.calls) :
    bench.calls[k].state = "rejected" =>
      /\ Len(bench.calls) = k
      /\ bench.pc \in {"await", "done"}
      /\ bench.pc = "done" => bench.out.threw /\ "value" \notin DOMAIN bench.out
      /\ Len(bench.metrics) = k - 1

\* C20 witness: the first of two iterations has rejected and the call has
\* ended with the error after one invocation.
C20_Witness ==
  /\ bench.pc = "done"
  /\ bench.out.threw
  /\ bench.iterations = 2
  /\ Len(bench.calls) = 1
  /\ bench.calls[1].state = "rejected"

-----------------------------------------------------------------------------
(* SpecRace: two processes run saveAsBaseline on the same directory *)

\* The text of a file as the blocks it is written in: one for the head of a
\* report and one for each of its results.
Blocks(data) ==
  IF data.json
  THEN [i \in 1..(1 + Len(data.value.results)) |-> [of |-> data, at |-> i]]
  ELSE data.lines

\* The data a file of these blocks holds: JSON when they are the whole text
\* of one report, text that does not parse otherwise.
FromBlocks(blocks) ==
  IF blocks # <<>> /\ Blocks(blocks[1].of) = blocks
  THEN blocks[1].of
  ELSE PlainText(blocks)

\* writeFileSync opens the file with flag 'w', which creates it or truncates
\* it to length zero, ...
OpenTruncate(fs, path, t) == WriteFileSync(fs, path, PlainText(<<>>), t)

\* ... and then writes the text from offset 0 of its own descriptor: what the
\* file held beyond the length of the text stays.
WriteFromStart(fs, path, data, t) ==
  LET old == Blocks(fs[path].data)
      new == Blocks(data)
  IN WriteFileSync(fs, path, FromBlocks(new \o SubSeq(old, Len(new) + 1, Len(old))), t)

Procs == 1..2

\* mkdirSync(RESULTS_DIR, { recursive: true }): no error when the directory
\* exists by now.
MkdirSyncRecursive(exists) == TRUE

InitRace ==
  /\ durations = <<>>
  /\ statsOut = Pending
  /\ args \in [Procs -> {[report |-> r, pc |-> "start", exists |-> FALSE] : r \in Reports}]
  /\ now = 0
  /\ dirExists \in BOOLEAN
  /\ files \in (IF dirExists THEN {NoFiles, BaselineOnly(ReportA, 0)} ELSE {NoFiles})
  /\ last = Pending
  /\ savedBaseline = NoReport
  /\ bench = NoBench
  /\ tracker = NoTracker

\* ensureResultsDir: existsSync(RESULTS_DIR)
RaceExistsSync(p) ==
  /\ args[p].pc = "start"
  /\ args' = [args EXCEPT ![p].pc = "checked", ![p].exists = dirExists]
  /\ UNCHANGED <<bench, tracker, durations, statsOut, now, dirExists, files, last, savedBaseline>>

\* ensureResultsDir: mkdirSync when the directory was not seen.
RaceMkdirSync(p) ==
  /\ args[p].pc = "checked"
  /\ args' = [args EXCEPT ![p].pc = "ensured"]
  /\ dirExists' = IF ~args[p].exists THEN MkdirSyncRecursive(dirExists) ELSE dirExists
  /\ UNCHANGED <<bench, tracker, durations, statsOut, now, files, last, savedBaseline>>

\* writeFileSync(BASELINE_FILE, ...): the open.
RaceOpen(p) ==
  /\ args[p].pc = "ensured"
  /\ args' = [args EXCEPT ![p].pc = "open"]
  /\ files' = OpenTruncate(files, BASELINE_FILE, now)
  /\ UNCHANGED <<bench, tracker, durations, statsOut, now, dirExists, last, savedBaseline>>

\* writeFileSync(BASELINE_FILE, ...): the write; the call then logs and
\* returns.
RaceWrite(p) ==
  /\ args[p].pc = "open"
  /\ args' = [args EXCEPT ![p].pc = "done"]
  /\ files' = WriteFromStart(files, BASELINE_FILE, Stringify(args[p].report), now)
  /\ savedBaseline' = args[p].report
  /\ last' = [op |-> "saveAsBaseline", report |-> args[p].report, out |-> Returned(Undefined)]
  /\ UNCHANGED <<bench, tracker, durations, statsOut, now, dirExists>>

NextRace ==
  \E p \in Procs :
    \/ RaceExistsSync(p)
    \/ RaceMkdirSync(p)
    \/ RaceOpen(p)
    \/ RaceWrite(p)

SpecRace == InitRace /\ [][NextRace]_vars

\* C25: when two processes run saveAsBaseline(r1) and saveAsBaseline(r2)
\* concurrently on the same results directory, under every interleaving both
\* calls complete and the baseline afterwards is whole r1 or whole r2, the
\* one written last, never a merge of the two.
C25_LastWriterWins ==
  (\A p \in Procs : args[p].pc = "done") =>
    /\ dirExists
    /\ ExistsSync(files, BASELINE_FILE)
    /\ ReadFileSync(files, BASELINE_FILE) = Stringify(savedBaseline)

-----------------------------------------------------------------------------
(* SpecHook: the afterAll hook of the IPC benchmark suite *)

\* shouldFailOnRegression(comparisons)
shouldFailOnRegression(comparisons) ==
  \E i \in 1..Len(comparisons) : comparisons[i].regression

\* printComparison(comparisons) of the store: what it prints of the summary,
\* or the TypeError of toFixed on a statistic that is no number.
storePrintComparison(comparisons) ==
  IF comparisons = <<>> THEN Returned([headline |-> "No comparisons available"])
  ELSE IF PrintThrows(comparisons) THEN Threw("TypeError")
  ELSE Returned(
         [total |-> Len(comparisons),
          regressions |-> Cardinality({i \in 1..Len(comparisons) : comparisons[i].regression}),
          improvements |-> Cardinality({i \in 1..Len(comparisons) : comparisons[i].improvement}),
          stable |-> Cardinality({i \in 1..Len(comparisons) :
                                    ~comparisons[i].regression /\ ~comparisons[i].improvement}),
          headline |->
            IF \E i \in 1..Len(comparisons) : comparisons[i].regression
              THEN "Performance regressions detected!"
            ELSE IF \E i \in 1..Len(comparisons) : comparisons[i].improvement
              THEN "Performance improvements detected!"
            ELSE "Performance is stable"])

\* A hook that compares before it saves the baseline.
afterAllCompareFirst(fs, testResults, shouldSaveBaseline, shouldCompare, t, later) ==
  LET saved == savePerformanceReport(fs, "ipc-performance", testResults, t)
      report == ReportOf("ipc-performance", t, testResults)
      exported == WriteFileSync(saved, CsvPath(report, t), PlainText(CsvRows(report)), t)
      current == ReportOf("ipc-performance", later, testResults)
      compared == compareWithBaseline(exported, current, Lit(1, 10))
      printed == storePrintComparison(compared.comparisons)
      baselined == IF shouldSaveBaseline /\ ~(shouldCompare /\ printed.threw)
                     THEN saveAsBaseline(exported, current, later)
                     ELSE exported
  IN [files |-> baselined,
      steps |-> <<"savePerformanceReport", "exportToCSV">>
                  \o (IF shouldCompare THEN <<"compareWithBaseline", "printComparison">> ELSE <<>>)
                  \o (IF shouldSaveBaseline /\ ~(shouldCompare /\ printed.threw)
                        THEN <<"saveAsBaseline">> ELSE <<>>),
      comparisons |-> IF shouldCompare THEN compared.comparisons ELSE <<>>,
      out |-> IF shouldCompare /\ printed.threw THEN printed ELSE Returned(Undefined)]

\* The afterAll hook run at time t, its later clock readings being later:
\* the files afterwards, the store operations in the order they were called,
\* the comparisons printed and how the hook ended.
afterAll(fs, testResults, shouldSaveBaseline, shouldCompare, t, later) ==
  LET saved == savePerformanceReport(fs, "ipc-performance", testResults, t)
      report == ReportOf("ipc-performance", t, testResults)
      exported == WriteFileSync(saved, CsvPath(report, t), PlainText(CsvRows(report)), t)
      current == ReportOf("ipc-performance", later, testResults)
      baselined == IF shouldSaveBaseline THEN saveAsBaseline(exported, current, later)
                   ELSE exported
      compared == compareWithBaseline(baselined, current, Lit(1, 10))
      printed == storePrintComparison(compared.comparisons)
  IN [files |-> baselined,
      steps |-> <<"savePerformanceReport", "exportToCSV">>
                  \o (IF shouldSaveBaseline THEN <<"saveAsBaseline">> ELSE <<>>)
                  \o (IF shouldCompare THEN <<"compareWithBaseline", "printComparison">> ELSE <<>>),
      comparisons |-> IF shouldCompare THEN compared.comparisons ELSE <<>>,
      out |-> IF shouldCompare /\ printed.threw THEN printed ELSE Returned(Undefined)]

\* The results the suite has collected when the hook runs: each test at most
\* once, each from a benchmark of at least one iteration.
HookResults ==
  {<<>>,
   <<TestResultOf("X", Run10)>>,
   <<TestResultOf("X", Run0)>>,
   <<TestResultOf("X", Run13), TestResultOf("Z", Run11)>>,
   <<TestResultOf("X", Run8), TestResultOf("Y", Run10)>>}

InitHook ==
  /\ durations = <<>>
  /\ statsOut = Pending
  /\ args \in [testResults : HookResults,
               shouldSaveBaseline : BOOLEAN,
               shouldCompare : BOOLEAN]
  /\ now = 0
  /\ dirExists \in BOOLEAN
  /\ \/ files = NoFiles /\ savedBaseline = NoReport
     \/ /\ dirExists
        /\ \E rs \in BaselineResultLists :
             /\ files = BaselineOnly(ReportOf("ipc-performance", 0, rs), 0)
             /\ savedBaseline = ReportOf("ipc-performance", 0, rs)
  /\ last = Pending
  /\ bench = NoBench
  /\ tracker = NoTracker

\* The hook runs once, when the tests of the suite are over. Its first step,
\* savePerformanceReport, creates the directory.
AfterAll ==
  /\ last = Pending
  /\ \E later \in now..MaxTime :
       LET hook == afterAll(files, args.testResults, args.shouldSaveBaseline,
                            args.shouldCompare, now, later)
       IN /\ files' = hook.files
          /\ last' = [op |-> "afterAll", before |-> loadBaseline(files),
                      steps |-> hook.steps,
                      comparisons |-> hook.comparisons, out |-> hook.out]
          /\ savedBaseline' = IF args.shouldSaveBaseline
                                THEN ReportOf("ipc-performance", later, args.testResults)
                                ELSE savedBaseline
          /\ now' = later
  /\ dirExists' = ensureResultsDir(dirExists)
  /\ UNCHANGED <<bench, tracker, durations, statsOut, args>>

NextHook == AfterAll

SpecHook == InitHook /\ [][NextHook]_vars

\* C26: a benchmark run with automatic comparison enabled (COMPARE_BASELINE
\* = true) whose comparison against the baseline holds at least one
\* regression fails; on that account it succeeds only without regression.
C26_RegressionFailsRun ==
  (last # Pending /\ args.shouldCompare /\ shouldFailOnRegression(last.comparisons)) =>
    last.out.threw

\* The store operations of the hook in their fixed order, those of a flag
\* that is not set left out.
HookOrder ==
  <<"savePerformanceReport", "exportToCSV">>
    \o (IF args.shouldSaveBaseline THEN <<"saveAsBaseline">> ELSE <<>>)
    \o (IF args.shouldCompare THEN <<"compareWithBaseline", "printComparison">> ELSE <<>>)

\* C30: the hook runs its steps in the fixed order save report, export CSV,
\* save baseline (if SAVE_BASELINE), compare (if COMPARE_BASELINE); with both
\* flags set the comparison runs against the baseline just written from the
\* same results and reports every test with no regression and no
\* improvement, whatever the previous baseline held.
C30_HookOrder ==
  last # Pending =>
    /\ last.steps = HookOrder
    /\ \E t \in 0..now : ExistsSync(files, ReportPath("ipc-performance", t))
    /\ args.shouldSaveBaseline =>
         /\ ExistsSync(files, BASELINE_FILE)
         /\ ReadFileSync(files, BASELINE_FILE) = Stringify(savedBaseline)
         /\ savedBaseline.results = args.testResults
    /\ (args.shouldSaveBaseline /\ args.shouldCompare) =>
         /\ ~last.out.threw
         /\ Len(last.comparisons) = Len(args.testResults)
         /\ \A i \in 1..Len(last.comparisons) :
              /\ last.comparisons[i].testName = args.testResults[i].testName
              /\ last.comparisons[i].baseline = JsonStats(args.testResults[i].stats)
              /\ ~last.comparisons[i].regression
              /\ ~last.comparisons[i].improvement

\* C30 witness: the previous baseline held X at 10 ms, the suite measured X at
\* 13 ms and Z, both flags were set, and the hook reported two tests, none of
\* them a regression.
C30_Witness ==
  /\ last # Pending
  /\ args.shouldSaveBaseline
  /\ args.shouldCompare
  /\ last.before # NoReport
  /\ \E k \in 1..Len(last.before.results) :
       /\ last.before.results[k].testName = "X"
       /\ last.before.results[k].stats.mean = Num(10)
  /\ Len(args.testResults) = 2
  /\ args.testResults[1].stats.mean = Num(13)
  /\ Len(last.comparisons) = 2
  /\ ~last.comparisons[1].regression

-----------------------------------------------------------------------------
(* SpecTracker: a TestResultTracker under track, clear, getResults and count *)

\* The most calls of track and clear made on the tracker.
MaxCalls == 4

\* createTracker(): a tracker with no results.
createTracker == [results |-> <<>>]

\* The result track builds at time t.
TrackedResult(testName, stats, iterations, metadata, t) ==
  [testName |-> testName,
   timestamp |-> ToISOString(t),
   stats |-> stats,
   iterations |-> iterations,
   metadata |-> metadata]

\* A track that puts the result in front of the others.
trackInFront(tr, testName, stats, iterations, metadata, t) ==
  [tr EXCEPT !.results = <<TrackedResult(testName, stats, iterations, metadata, t)>> \o @]

\* track(testName, stats, iterations, metadata) at time t
track(tr, testName, stats, iterations, metadata, t) ==
  [tr EXCEPT !.results = Append(@, TrackedResult(testName, stats, iterations, metadata, t))]

\* getResults()
getResults(tr) == tr.results

\* clear()
clear(tr) == [tr EXCEPT !.results = <<>>]

\* count()
count(tr) == Len(tr.results)

\* args.calls is the history of the track and clear calls made.
InitTracker ==
  /\ durations = <<>>
  /\ statsOut = Pending
  /\ args = [calls |-> <<>>]
  /\ now = 0
  /\ dirExists = FALSE
  /\ files = NoFiles
  /\ last = Pending
  /\ savedBaseline = NoReport
  /\ bench = NoBench
  /\ tracker = createTracker

Track ==
  /\ Len(args.calls) < MaxCalls
  /\ \E testName \in {"X", "Z"}, metadata \in {Undefined, [memoryDelta |-> Num(5)]} :
       /\ tracker' = track(tracker, testName, SingleStats, 1, metadata, now)
       /\ args' = [calls |-> Append(args.calls,
                                    [op |-> "track", testName |-> testName,
                                     metadata |-> metadata, at |-> now])]
  /\ UNCHANGED <<bench, durations, statsOut, now, dirExists, files, last, savedBaseline>>

Clear ==
  /\ Len(args.calls) < MaxCalls
  /\ tracker' = clear(tracker)
  /\ args' = [calls |-> Append(args.calls, [op |-> "clear"])]
  /\ UNCHANGED <<bench, durations, statsOut, now, dirExists, files, last, savedBaseline>>

GetResults ==
  /\ last' = [op |-> "getResults", after |-> Len(args.calls),
              out |-> Returned(getResults(tracker))]
  /\ UNCHANGED <<bench, tracker, durations, statsOut, args, now, dirExists, files, savedBaseline>>

Count ==
  /\ last' = [op |-> "count", after |-> Len(args.calls), out |-> Returned(count(tracker))]
  /\ UNCHANGED <<bench, tracker, durations, statsOut, args, now, dirExists, files, savedBaseline>>

NextTracker == Tick \/ Track \/ Clear \/ GetResults \/ Count

SpecTracker == InitTracker /\ [][NextTracker]_vars

\* The position of the most recent clear in a history of calls, 0 if none.
LastClear(calls) ==
  IF \E k \in 1..Len(calls) : calls[k].op = "clear"
  THEN CHOOSE k \in 1..Len(calls) :
         /\ calls[k].op = "clear"
         /\ \A j \in (k + 1)..Len(calls) : calls[j].op = "track"
  ELSE 0

\* The results tracked since the most recent clear, or since creation, in
\* the order of the calls.
TrackedSince(calls) ==
  [k \in 1..(Len(calls) - LastClear(calls)) |->
     LET call == calls[LastClear(calls) + k]
     IN [testName |-> call.testName,
         timestamp |-> ToISOString(call.at),
         stats |-> SingleStats,
         iterations |-> 1,
         metadata |-> call.metadata]]

\* C27: after any sequence of track and clear calls on a TestResultTracker,
\* getResults() returns exactly the results tracked since the most recent
\* clear (or since creation), in the order track was called, count() equals
\* their number, and clear() makes count() 0.
C27_TrackerHoldsTrackedResults ==
  /\ getResults(tracker) = TrackedSince(args.calls)
  /\ count(tracker) = Len(TrackedSince(args.calls))
  /\ (last # Pending /\ last.after = Len(args.calls)) =>
       /\ last.op = "getResults" => last.out.value = TrackedSince(args.calls)
       /\ last.op = "count" => last.out.value = Len(TrackedSince(args.calls))
       /\ (args.calls # <<>> /\ args.calls[Len(args.calls)].op = "clear" /\ last.op = "count") =>
            last.out.value = 0

\* C27 witness: a result was tracked and cleared, then Z and X were tracked in
\* that order, and getResults returned the two of them, Z first.
C27_Witness ==
  /\ Len(args.calls) = 4
  /\ args.calls[1].op = "track"
  /\ args.calls[2].op = "clear"
  /\ last # Pending
  /\ last.op = "getResults"
  /\ last.after = 4
  /\ Len(last.out.value) = 2
  /\ last.out.value[1].testName = "Z"
  /\ last.out.value[2].testName = "X"

-----------------------------------------------------------------------------
(* SpecSummary: a comparison is made and its summary printed *)

\* stableCount of the tool's printComparison.
stableCount(comparisons) ==
  Cardinality({i \in 1..Len(comparisons) :
                 ~comparisons[i].regression /\ ~comparisons[i].improvement})

\* The summary the tool's printComparison prints once the detailed results
\* are out, or the TypeError the detailed results end in.
toolSummary(comparisons) ==
  IF PrintThrows(comparisons) THEN Threw("TypeError")
  ELSE Returned([total |-> Len(comparisons),
                 regressions |-> regressionCount(comparisons),
                 improvements |-> improvementCount(comparisons),
                 stable |-> stableCount(comparisons),
                 headline |-> SummaryHeadline(comparisons)])

\* The comparison made is printed, by the printComparison of the store after
\* compareWithBaseline and by that of the tool after compareReports, which the
\* tool calls for a non-empty comparison only; shouldFailOnRegression is
\* asked about it.
PrintSummary ==
  /\ last # Pending
  /\ statsOut = Pending
  /\ last.op = "compareReports" => Comparisons # <<>>
  /\ statsOut' = [pending |-> FALSE,
                  printed |-> IF last.op = "compareWithBaseline"
                                THEN storePrintComparison(Comparisons)
                                ELSE toolSummary(Comparisons),
                  shouldFail |-> shouldFailOnRegression(Comparisons)]
  /\ UNCHANGED <<bench, tracker, durations, args, now, dirExists, files, last, savedBaseline>>

NextSummary == CallCompareWithBaseline \/ CallCompareReports \/ PrintSummary

SpecSummary == InitCompare /\ [][NextSummary]_vars

\* C28: under every threshold >= 0 no comparison has both regression and
\* improvement true, so in every printed summary regressions + improvements
\* + stable = total compared tests; and shouldFailOnRegression is true
\* exactly when the number of regressions is positive.
C28_ExclusiveClasses ==
  (last # Pending /\ FLe(Num(0), ThresholdInForce)) =>
    /\ \A i \in 1..Len(Comparisons) :
         ~(Comparisons[i].regression /\ Comparisons[i].improvement)
    /\ (statsOut # Pending /\ ~statsOut.printed.threw /\ Comparisons # <<>>) =>
         LET summary == statsOut.printed.value
         IN /\ summary.total = Len(Comparisons)
            /\ summary.regressions + summary.improvements + summary.stable = summary.total
    /\ statsOut # Pending =>
         (statsOut.shouldFail <=>
            Cardinality({i \in 1..Len(Comparisons) : Comparisons[i].regression}) > 0)

\* C28 witness: a summary of two tests was printed, one regression and one
\* stable test, and shouldFailOnRegression said yes.
C28_Witness ==
  /\ last # Pending
  /\ statsOut # Pending
  /\ FLe(Num(0), ThresholdInForce)
  /\ ~statsOut.printed.threw
  /\ Len(Comparisons) = 2
  /\ statsOut.printed.value.total = 2
  /\ statsOut.printed.value.regressions = 1
  /\ statsOut.printed.value.stable = 1
  /\ statsOut.shouldFail

====
